---- MODULE Spec2Model ----
(***************************************************************************)
(* Chinese BM25 search: the indexer (chinese_processor.py), the ranker     *)
(* (chinese_bm25_search.py) and the two Flask services (api_server.py,     *)
(* chinese_api.py) as state machines.                                      *)
(*                                                                         *)
(* Texts.  jieba is an external segmenter; a text is modelled as the       *)
(* sequence of words jieba cuts it into, and every word has the sequence   *)
(* of characters it is written with (Chars), so that Python's substring    *)
(* test on the raw strings can be computed.                                *)
(*   "outang" = 藕汤 (ou+tang)   "lianou" = 莲藕 (lian+ou)                 *)
(*   "tang"   = 汤               "de"     = 的 (a stop word)               *)
(* Numbers.  Scores are floats in the code; here they are fixed-point      *)
(* integers with Scale units per 1.0.                                      *)
(***************************************************************************)
EXTENDS Integers, Sequences, FiniteSets, TLC

\* ------------------------------------------------------------------ bounds
MaxDocs == 2
MaxBodyLen == 2
MaxCorpus == 3
MaxQueryLen == 2
MaxRebuilds == 2
MaxLines == 2
MaxBlankLines == 10
MaxSentences == 2
MaxTf == 5

\* ------------------------------------------------------- program constants
K1x10 == 15
Bx10 == 6
MAX_RESULTS_LIMIT == 50
DEFAULT_RESULTS_LIMIT == 10
MIN_TERM_LENGTH == 1
MIN_CHINESE_CHARS == 5
TITLE_WEIGHT == 5
\* fixed-point unit of the scores: 1.0 is Scale
Scale == 100 * 100

\* Python's None, where a variable holds an object or nothing
None == [none |-> TRUE]

\* ------------------------------------------------------------------- texts
Vocabulary == {"outang", "lianou", "tang", "de"}

Chars(w) ==
    CASE w = "outang" -> <<"ou", "tang">>
      [] w = "lianou" -> <<"lian", "ou">>
      [] w = "tang"   -> <<"tang">>
      [] w = "de"     -> <<"de">>
      [] w = "fenzhong" -> <<"fen", "zhong">>
      [] OTHER        -> <<>>

stop_words == {"de"}

\* ChineseConfig.KEYWORD_BOOSTS, in tenths: 藕汤 is boosted 3.0
KEYWORD_BOOSTS_x10 == [t \in {"outang"} |-> 30]

Range(s) == {s[i] : i \in DOMAIN s}

SeqsUpTo(S, n) == UNION {[1..k -> S] : k \in 0..n}

Max(a, b) == IF a >= b THEN a ELSE b
Min(a, b) == IF a <= b THEN a ELSE b

\* a filter that lets stop words through
preprocess_text_KeepStopWords(text) ==
    IF text = <<>> THEN <<>>
    ELSE SelectSeq(text, LAMBDA w : Len(Chars(w)) >= MIN_TERM_LENGTH)

\* preprocess_text: the segmenter's words, minus words shorter than
\* MIN_TERM_LENGTH and stop words; an empty text gives no tokens.
preprocess_text(text) ==
    IF text = <<>> THEN <<>>
    ELSE SelectSeq(text, LAMBDA w : Len(Chars(w)) >= MIN_TERM_LENGTH
                                    /\ w \notin stop_words)

\* ----------------------------------------------------------------- indexer
\* A source file, as process_documents sees it: the text read from it, the
\* number of CJK characters the text holds, and the title that
\* extract_title_from_content returns for it.
\* bodies are written with a content word and a stop word
BodyWords == {"tang", "de"}
TitleTexts == {<<"lianou", "tang">>, <<"de">>}

BlankSource == [text |-> <<>>, chinese_chars |-> 0, title |-> <<"de">>]
FewCjkSource == [text |-> <<"outang">>, chinese_chars |-> MIN_CHINESE_CHARS - 1,
                 title |-> <<"lianou", "tang">>]

\* a file that find_documents lists (is_file and stat succeed) and that the
\* process may not read: open() raises PermissionError
UnreadableSource == [text |-> <<"tang">>, chinese_chars |-> MIN_CHINESE_CHARS,
                     title |-> <<"lianou", "tang">>, open |-> "PermissionError"]

\* the files a build may find: every body of up to MaxBodyLen words under
\* every title, an empty file, a file with too few CJK characters and a file
\* without read permission
Sources ==
    {[text |-> b, chinese_chars |-> MIN_CHINESE_CHARS, title |-> t] :
        b \in SeqsUpTo(BodyWords, MaxBodyLen) \ {<<>>}, t \in TitleTexts}
    \cup {BlankSource, FewCjkSource, UnreadableSource}

\* _read_file_with_encoding catches UnicodeDecodeError and FileNotFoundError
\* only: any other exception of open() leaves it, and process_documents
\* does not catch it either
ReadRaises(src) == "open" \in DOMAIN src

\* process_documents raises at the first source whose read raises
BuildRaises(documents) == \E i \in DOMAIN documents : ReadRaises(documents[i])

\* Counter(tokens)
Counter(tokens) ==
    [t \in Range(tokens) |-> Cardinality({i \in DOMAIN tokens : tokens[i] = t})]

RECURSIVE Repeat(_, _)
Repeat(x, n) == IF n = 0 THEN <<>> ELSE <<x>> \o Repeat(x, n - 1)

\* combined_tokens: the content tokens, then every title token 5 times
RECURSIVE ExtendWithTitle(_, _)
ExtendWithTitle(combined, title_tokens) ==
    IF title_tokens = <<>> THEN combined
    ELSE ExtendWithTitle(combined \o Repeat(Head(title_tokens), TITLE_WEIGHT),
                         Tail(title_tokens))

\* title tokens added once, without the 5x weight
CombinedTokens_Unweighted(content_tokens, title_tokens) ==
    content_tokens \o title_tokens

CombinedTokens(content_tokens, title_tokens) ==
    ExtendWithTitle(content_tokens, title_tokens)

\* the id a document gets: enumerate(documents) gives the position in the input
DocIdOf(position, passed) == position

DocRecord(path, src, content_tokens, title_tokens, combined_tokens) ==
    [path |-> path,
     title |-> src.title,
     filename |-> path,
     tokens |-> Len(content_tokens),
     title_tokens |-> Len(title_tokens),
     length |-> Len(combined_tokens),
     term_frequencies |-> Counter(combined_tokens),
     chinese_chars |-> src.chinese_chars,
     total_chars |-> Len(src.text)]

\* a posting that forgets the frequency
AppendPostings_UnitFreq(inverted_index, doc_id, term_frequencies) ==
    [t \in DOMAIN inverted_index \cup DOMAIN term_frequencies |->
        IF t \in DOMAIN term_frequencies
        THEN (IF t \in DOMAIN inverted_index THEN inverted_index[t] ELSE <<>>)
             \o <<(<<doc_id, 1>>)>>
        ELSE inverted_index[t]]

\* inverted_index[term].append((doc_id, freq)) for every term of the document
AppendPostings(inverted_index, doc_id, term_frequencies) ==
    [t \in DOMAIN inverted_index \cup DOMAIN term_frequencies |->
        IF t \in DOMAIN term_frequencies
        THEN (IF t \in DOMAIN inverted_index THEN inverted_index[t] ELSE <<>>)
             \o <<(<<doc_id, term_frequencies[t]>>)>>
        ELSE inverted_index[t]]

EmptyMap == [x \in {} |-> 0]

Put(f, k, v) == [x \in DOMAIN f \cup {k} |-> IF x = k THEN v ELSE f[x]]

\* the loop of process_documents from input position i (0-based) on
RECURSIVE ProcessFrom(_, _, _, _, _)
\* a loop that indexes a document on its title tokens when the body has none
ProcessFrom_TitleSuffices(documents, i, passed, document_index, inverted_index) ==
    IF i >= Len(documents) THEN <<document_index, inverted_index>>
    ELSE
      LET src == documents[i + 1]
          doc_id == DocIdOf(i, passed)
          content_tokens == preprocess_text(src.text)
          title_tokens == preprocess_text(src.title)
          combined_tokens == CombinedTokens(content_tokens, title_tokens)
          rec == DocRecord(i, src, content_tokens, title_tokens, combined_tokens)
      IN IF src.text = <<>> THEN
              ProcessFrom(documents, i + 1, passed, document_index, inverted_index)
         ELSE IF src.chinese_chars < MIN_CHINESE_CHARS THEN
              ProcessFrom(documents, i + 1, passed, document_index, inverted_index)
         ELSE IF combined_tokens = <<>> THEN
              ProcessFrom(documents, i + 1, passed, document_index, inverted_index)
         ELSE ProcessFrom(documents, i + 1, passed + 1,
                          Put(document_index, doc_id, rec),
                          AppendPostings(inverted_index, doc_id, rec.term_frequencies))

ProcessFrom(documents, i, passed, document_index, inverted_index) ==
    IF i >= Len(documents) THEN <<document_index, inverted_index>>
    ELSE
      LET src == documents[i + 1]
          doc_id == DocIdOf(i, passed)
          content_tokens == preprocess_text(src.text)
          title_tokens == preprocess_text(src.title)
          combined_tokens == CombinedTokens(content_tokens, title_tokens)
          rec == DocRecord(i, src, content_tokens, title_tokens, combined_tokens)
      IN IF src.text = <<>> THEN
              ProcessFrom(documents, i + 1, passed, document_index, inverted_index)
         ELSE IF src.chinese_chars < MIN_CHINESE_CHARS THEN
              ProcessFrom(documents, i + 1, passed, document_index, inverted_index)
         ELSE IF content_tokens = <<>> THEN
              ProcessFrom(documents, i + 1, passed, document_index, inverted_index)
         ELSE ProcessFrom(documents, i + 1, passed + 1,
                          Put(document_index, doc_id, rec),
                          AppendPostings(inverted_index, doc_id, rec.term_frequencies))

process_documents(documents) == ProcessFrom(documents, 0, 0, EmptyMap, EmptyMap)

\* the sources of a list that pass the three filters, in input order
Passes(src) ==
    /\ src.text # <<>>
    /\ src.chinese_chars >= MIN_CHINESE_CHARS
    /\ preprocess_text(src.text) # <<>>

\* ------------------------------------------------------- persistence codec
Digit == <<"0", "1", "2", "3", "4", "5", "6", "7", "8", "9">>

\* str(n) for n >= 0, as json.dump writes an integer key
RECURSIVE DecStr(_)
DecStr(n) ==
    IF n < 10 THEN <<Digit[n + 1]>>
    ELSE DecStr(n \div 10) \o <<Digit[(n % 10) + 1]>>

\* a parse that reads every digit as 0
DigitValue_Zero(c) == 0

\* the value of a decimal digit
DigitValue(c) == CHOOSE d \in 0..9 : Digit[d + 1] = c

\* int(s)
RECURSIVE ParseInt(_)
ParseInt(s) ==
    IF Len(s) = 1 THEN DigitValue(s[1])
    ELSE 10 * ParseInt(SubSeq(s, 1, Len(s) - 1)) + DigitValue(s[Len(s)])

\* the content of chinese_documents.json: one object per document, keyed by
\* the decimal string of the doc id
JsonDump(document_index) ==
    LET keys == {DecStr(d) : d \in DOMAIN document_index}
    IN [k \in keys |->
          LET doc_data == document_index[CHOOSE d \in DOMAIN document_index : DecStr(d) = k]
          IN [path |-> doc_data.path,
              title |-> doc_data.title,
              filename |-> doc_data.filename,
              tokens |-> doc_data.tokens,
              title_tokens |-> doc_data.title_tokens,
              length |-> doc_data.length,
              term_frequencies |-> doc_data.term_frequencies,
              chinese_chars |-> doc_data.chinese_chars,
              total_chars |-> doc_data.total_chars]]

\* the content of chinese_inverted_index.pkl
PickleDump(inverted_index) == [pickled |-> inverted_index]

\* load_index: the two files back into (document_index, inverted_index)
JsonLoad(json) ==
    LET ids == {ParseInt(k) : k \in DOMAIN json}
    IN [d \in ids |->
          LET doc_data == json[CHOOSE k \in DOMAIN json : ParseInt(k) = d]
          IN [path |-> doc_data.path,
              title |-> doc_data.title,
              filename |-> doc_data.filename,
              tokens |-> doc_data.tokens,
              title_tokens |-> doc_data.title_tokens,
              length |-> doc_data.length,
              term_frequencies |-> doc_data.term_frequencies,
              chinese_chars |-> doc_data.chinese_chars,
              total_chars |-> doc_data.total_chars]]

PickleLoad(pkl) == pkl.pickled

load_index(json, pkl) == <<JsonLoad(json), PickleLoad(pkl)>>

\* what open() raises for a file that is not there
FileNotFoundError == [ok |-> FALSE, error |-> "FileNotFoundError"]

\* a load that makes do with the document file alone
LoadOutcome_Partial(json, pkl) ==
    IF json = None THEN FileNotFoundError
    ELSE [ok |-> TRUE,
          index |-> <<JsonLoad(json), IF pkl = None THEN EmptyMap ELSE PickleLoad(pkl)>>]

\* a call of load_index on INDEX_DIR: it opens chinese_documents.json, then
\* chinese_inverted_index.pkl, and returns the pair only if both opened
LoadOutcome(json, pkl) ==
    IF json = None \/ pkl = None THEN FileNotFoundError
    ELSE [ok |-> TRUE, index |-> load_index(json, pkl)]

\* ------------------------------------------------------------------ engine
RECURSIVE SumLengths(_, _)
SumLengths(document_index, ids) ==
    IF ids = {} THEN 0
    ELSE LET d == CHOOSE x \in ids : TRUE
         IN document_index[d].length + SumLengths(document_index, ids \ {d})

\* an average that stays at the 0.0 of an empty index
_calculate_avg_doc_length_Unset(document_index) == <<0, 1>>

\* ChineseBM25Search.__init__; avg_doc_length is the fraction total/count,
\* kept as the pair <<total, count>> (0.0 is <<0, 1>>)
_calculate_avg_doc_length(document_index) ==
    IF DOMAIN document_index = {} THEN <<0, 1>>
    ELSE <<SumLengths(document_index, DOMAIN document_index),
           Cardinality(DOMAIN document_index)>>

NewEngine(document_index, inverted_index, generation) ==
    [document_index |-> document_index,
     inverted_index |-> inverted_index,
     num_documents |-> Cardinality(DOMAIN document_index),
     avg_doc_length |-> _calculate_avg_doc_length(document_index),
     generation |-> generation]

\* ------------------------------------------------------------------ ranker
\* math.log(num/den) for num >= den > 0, in fixed point: 2*atanh((x-1)/(x+1))
\* summed as z + z^3/3 + z^5/5 + ... until the terms vanish
RECURSIVE AtanhSeries(_, _, _)
AtanhSeries(power, z, k) ==
    IF power = 0 \/ k > 60 THEN 0
    ELSE (power \div k) + AtanhSeries((((power * z) \div Scale) * z) \div Scale, z, k + 2)

LogRatio(num, den) ==
    LET LnPos(a, b) == 2 * AtanhSeries(((a - b) * Scale) \div (a + b),
                                       ((a - b) * Scale) \div (a + b), 1)
    IN IF num >= den THEN LnPos(num, den) ELSE 0 - LnPos(den, num)

\* the idf without its clamp at 0
_calculate_idf_Unclamped(engine, term) ==
    IF term \notin DOMAIN engine.inverted_index THEN 0
    ELSE LET df == Len(engine.inverted_index[term])
         IN LogRatio(2 * engine.num_documents - 2 * df + 1, 2 * df + 1)

\* _calculate_idf: max(0, log((N - df + 0.5) / (df + 0.5)))
_calculate_idf(engine, term) ==
    IF term \notin DOMAIN engine.inverted_index THEN 0
    ELSE LET df == Len(engine.inverted_index[term])
         IN Max(0, LogRatio(2 * engine.num_documents - 2 * df + 1, 2 * df + 1))

\* _get_keyword_boost, in tenths
_get_keyword_boost_x10(term) ==
    IF term \in DOMAIN KEYWORD_BOOSTS_x10 THEN KEYWORD_BOOSTS_x10[term] ELSE 10

\* the characters of a text, and of ' '.join(tokens)
RECURSIVE Flatten(_)
Flatten(text) ==
    IF text = <<>> THEN <<>> ELSE Chars(Head(text)) \o Flatten(Tail(text))

RECURSIVE JoinWithSpace(_)
JoinWithSpace(tokens) ==
    IF tokens = <<>> THEN <<>>
    ELSE IF Len(tokens) = 1 THEN Chars(tokens[1])
    ELSE Chars(Head(tokens)) \o <<" ">> \o JoinWithSpace(Tail(tokens))

\* Python's `s in t` on strings
IsSubstring(s, t) ==
    \E i \in 0..(Len(t) - Len(s)) : SubSeq(t, i + 1, i + Len(s)) = s

TITLE_EXACT_MATCH_BONUS == 15
TITLE_SUBSTRING_MATCH_BONUS == 10
TITLE_PARTIAL_80_BONUS == 12
TITLE_PARTIAL_60_BONUS == 9
TITLE_PARTIAL_40_BONUS == 6
TITLE_PARTIAL_LOW_BONUS == 2

\* keyword_bonus: one 2.0 * boost for every query term (repeats included) that
\* is a boosted keyword and a title token
RECURSIVE KeywordBonus(_, _)
KeywordBonus(query_terms, title_set) ==
    IF query_terms = <<>> THEN 0
    ELSE (IF Head(query_terms) \in DOMAIN KEYWORD_BOOSTS_x10
             /\ Head(query_terms) \in title_set
          THEN (KEYWORD_BOOSTS_x10[Head(query_terms)] * 2 * Scale) \div 10
          ELSE 0)
         + KeywordBonus(Tail(query_terms), title_set)

\* a title score without the bonus for a title that holds every query term
_calculate_title_match_score_ExactUnrewarded(query_terms, doc_title) ==
    IF query_terms = <<>> \/ doc_title = <<>> THEN 0
    ELSE
      LET title_tokens == preprocess_text(doc_title)
          query_set == Range(query_terms)
          title_set == Range(title_tokens)
          keyword_bonus == KeywordBonus(query_terms, title_set)
          intersection == query_set \cap title_set
          ni == Cardinality(intersection)
          nq == Cardinality(query_set)
      IN IF title_tokens = <<>> THEN 0
         ELSE IF query_set \subseteq title_set
              THEN keyword_bonus
         ELSE IF intersection # {}
              THEN (IF 10 * ni >= 8 * nq THEN TITLE_PARTIAL_80_BONUS * Scale
                    ELSE IF 10 * ni >= 6 * nq THEN TITLE_PARTIAL_60_BONUS * Scale
                    ELSE IF 10 * ni >= 4 * nq THEN TITLE_PARTIAL_40_BONUS * Scale
                    ELSE TITLE_PARTIAL_LOW_BONUS * Scale) + keyword_bonus
         ELSE IF IsSubstring(JoinWithSpace(query_terms), Flatten(doc_title))
              THEN TITLE_SUBSTRING_MATCH_BONUS * Scale + keyword_bonus
         ELSE keyword_bonus

\* _calculate_title_match_score(query_terms, doc_title)
_calculate_title_match_score(query_terms, doc_title) ==
    IF query_terms = <<>> \/ doc_title = <<>> THEN 0
    ELSE
      LET title_tokens == preprocess_text(doc_title)
          query_set == Range(query_terms)
          title_set == Range(title_tokens)
          keyword_bonus == KeywordBonus(query_terms, title_set)
          intersection == query_set \cap title_set
          ni == Cardinality(intersection)
          nq == Cardinality(query_set)
      IN IF title_tokens = <<>> THEN 0
         ELSE IF query_set \subseteq title_set
              THEN TITLE_EXACT_MATCH_BONUS * Scale + keyword_bonus
         ELSE IF intersection # {}
              THEN (IF 10 * ni >= 8 * nq THEN TITLE_PARTIAL_80_BONUS * Scale
                    ELSE IF 10 * ni >= 6 * nq THEN TITLE_PARTIAL_60_BONUS * Scale
                    ELSE IF 10 * ni >= 4 * nq THEN TITLE_PARTIAL_40_BONUS * Scale
                    ELSE TITLE_PARTIAL_LOW_BONUS * Scale) + keyword_bonus
         ELSE IF IsSubstring(JoinWithSpace(query_terms), Flatten(doc_title))
              THEN TITLE_SUBSTRING_MATCH_BONUS * Scale + keyword_bonus
         ELSE keyword_bonus

\* a term score whose numerator forgets the term frequency
TermScore_FlatNumerator(engine, doc_data, term, query_freq) ==
    LET tf == doc_data.term_frequencies[term]
        total == engine.avg_doc_length[1]
        count == engine.avg_doc_length[2]
        numerator == (K1x10 + 10) * 10 * total
        denominator == 100 * tf * total
                       + K1x10 * ((10 - Bx10) * total + Bx10 * doc_data.length * count)
    IN ((((_calculate_idf(engine, term) * numerator) \div denominator)
          * query_freq) * _get_keyword_boost_x10(term)) \div 10

\* idf * (tf*(k1+1)) / (tf + k1*(1 - b + b*doc_length/avg_doc_length))
\*     * query_freq * keyword_boost, with numerator and denominator both
\* multiplied by 100 * total, where avg_doc_length = total / count
TermScore(engine, doc_data, term, query_freq) ==
    LET tf == doc_data.term_frequencies[term]
        total == engine.avg_doc_length[1]
        count == engine.avg_doc_length[2]
        numerator == tf * (K1x10 + 10) * 10 * total
        denominator == 100 * tf * total
                       + K1x10 * ((10 - Bx10) * total + Bx10 * doc_data.length * count)
    IN ((((_calculate_idf(engine, term) * numerator) \div denominator)
          * query_freq) * _get_keyword_boost_x10(term)) \div 10

RECURSIVE SumTermScores(_, _, _, _)
SumTermScores(engine, doc_data, query_term_counts, terms) ==
    IF terms = {} THEN 0
    ELSE LET term == CHOOSE t \in terms : TRUE
         IN (IF term \in DOMAIN doc_data.term_frequencies
             THEN TermScore(engine, doc_data, term, query_term_counts[term])
             ELSE 0)
            + SumTermScores(engine, doc_data, query_term_counts, terms \ {term})

BaseScore(engine, doc_data, query_terms) ==
    SumTermScores(engine, doc_data, Counter(query_terms), Range(query_terms))

RELEVANCE_HIGH == 8
RELEVANCE_MEDIUM == 3

Relevance(total_score) ==
    IF total_score > RELEVANCE_HIGH * Scale THEN "high"
    ELSE IF total_score > RELEVANCE_MEDIUM * Scale THEN "medium"
    ELSE "low"

ScoredDoc(engine, doc_id, query_terms) ==
    LET doc_data == engine.document_index[doc_id]
        base_score == BaseScore(engine, doc_data, query_terms)
        title_bonus == _calculate_title_match_score(query_terms, doc_data.title)
    IN [doc_id |-> doc_id,
        score |-> base_score + title_bonus,
        base_score |-> base_score,
        title_bonus |-> title_bonus,
        path |-> doc_data.path,
        title |-> doc_data.title,
        length |-> doc_data.length,
        chinese_chars |-> doc_data.chinese_chars,
        relevance |-> Relevance(base_score + title_bonus)]

\* candidate_docs: every doc id of every query term's posting list
CandidateDocs(engine, query_terms) ==
    UNION {{engine.inverted_index[t][i][1] : i \in DOMAIN engine.inverted_index[t]} :
           t \in Range(query_terms) \cap DOMAIN engine.inverted_index}

\* a filter that drops the documents that score 0
KeepScored_Positive(doc) == doc.score > 0

\* `if total_score >= 0: scored_docs.append(...)`
KeepScored(doc) == doc.score >= 0

\* scored_docs in the order the loop over candidate_docs visits them
RECURSIVE ScoredDocs(_, _, _)
ScoredDocs(engine, order, query_terms) ==
    IF order = <<>> THEN <<>>
    ELSE LET doc == ScoredDoc(engine, Head(order), query_terms)
         IN (IF KeepScored(doc) THEN <<doc>> ELSE <<>>)
            \o ScoredDocs(engine, Tail(order), query_terms)

\* list.sort(key=score, reverse=True): stable, so equal scores keep the order
\* they had in the list
InsertByScore(sorted, doc) ==
    LET n == Cardinality({i \in DOMAIN sorted : sorted[i].score >= doc.score})
    IN SubSeq(sorted, 1, n) \o <<doc>> \o SubSeq(sorted, n + 1, Len(sorted))

RECURSIVE SortByScoreDesc(_, _)
SortByScoreDesc(sorted, rest) ==
    IF rest = <<>> THEN sorted
    ELSE SortByScoreDesc(InsertByScore(sorted, Head(rest)), Tail(rest))

\* `limit = min(limit, MAX_RESULTS_LIMIT)`
ClampLimit(limit) == Min(limit, MAX_RESULTS_LIMIT)

\* scored_docs[:limit], a negative limit counting from the end
SlicePrefix(seq, limit) ==
    IF limit >= 0 THEN SubSeq(seq, 1, Min(limit, Len(seq)))
    ELSE SubSeq(seq, 1, Max(0, Len(seq) + limit))

\* the sorted scored_docs of search, before the cut to limit; `order` is the
\* order in which the set candidate_docs is iterated
Ranking(engine, query_terms, order) ==
    SortByScoreDesc(<<>>, ScoredDocs(engine, order, query_terms))

\* what search returns, given its sorted scored_docs
SearchReturn(engine, query_terms, limit, ranking) ==
    IF query_terms = <<>> THEN <<>>
    ELSE IF CandidateDocs(engine, query_terms) = {} THEN <<>>
    ELSE SlicePrefix(ranking, ClampLimit(limit))

\* ChineseBM25Search.search(query, limit)
search(engine, query_text, limit_arg, order) ==
    SearchReturn(engine, preprocess_text(query_text), limit_arg,
                 Ranking(engine, preprocess_text(query_text), order))

\* the orders in which a set of doc ids can be iterated
Orders(S) == {o \in [1..Cardinality(S) -> S] : Range(o) = S}

\* ------------------------------------------------- read-only utilities
RECURSIVE SumPostings(_)
SumPostings(postings) ==
    IF postings = <<>> THEN 0 ELSE Head(postings)[2] + SumPostings(Tail(postings))

\* get_term_statistics
get_term_statistics(engine, term_text) ==
    LET processed_terms == preprocess_text(term_text)
        term == processed_terms[1]
    IN IF processed_terms = <<>> THEN [error |-> "cannot process term"]
       ELSE IF term \notin DOMAIN engine.inverted_index
            THEN [term |-> term, document_frequency |-> 0, total_frequency |-> 0,
                  message |-> "term not in index"]
       ELSE [term |-> term,
             document_frequency |-> Len(engine.inverted_index[term]),
             total_frequency |-> SumPostings(engine.inverted_index[term]),
             idf_score |-> _calculate_idf(engine, term),
             coverage |-> <<Len(engine.inverted_index[term]), engine.num_documents>>,
             documents |-> SubSeq(engine.inverted_index[term], 1,
                                  Min(5, Len(engine.inverted_index[term])))]

\* the doc ids of an index in the order the dict holds them: the order of
\* insertion, which a build and a load both make ascending
RECURSIVE IdsInOrder(_)
IdsInOrder(ids) ==
    IF ids = {} THEN <<>>
    ELSE LET m == CHOOSE x \in ids : \A y \in ids : x <= y
         IN <<m>> \o IdsInOrder(ids \ {m})

\* round(intersection / union, 4), in units of 1/Scale
JaccardRounded(a, b) ==
    (2 * Cardinality(a \cap b) * Scale + Cardinality(a \cup b))
        \div (2 * Cardinality(a \cup b))

RECURSIVE Similarities(_, _, _)
Similarities(engine, doc_id, others) ==
    IF others = <<>> THEN <<>>
    ELSE LET other_doc_id == Head(others)
             source_terms == DOMAIN engine.document_index[doc_id].term_frequencies
             other_terms == DOMAIN engine.document_index[other_doc_id].term_frequencies
         IN (IF other_doc_id = doc_id \/ source_terms \cup other_terms = {} THEN <<>>
             ELSE <<[doc_id |-> other_doc_id,
                     similarity_score |-> JaccardRounded(source_terms, other_terms),
                     path |-> engine.document_index[other_doc_id].path,
                     title |-> engine.document_index[other_doc_id].title,
                     shared_terms |-> Cardinality(source_terms \cap other_terms),
                     total_terms |-> Cardinality(other_terms)]>>)
            \o Similarities(engine, doc_id, Tail(others))

InsertBySimilarity(sorted, entry) ==
    LET n == Cardinality({i \in DOMAIN sorted :
                             sorted[i].similarity_score >= entry.similarity_score})
    IN SubSeq(sorted, 1, n) \o <<entry>> \o SubSeq(sorted, n + 1, Len(sorted))

RECURSIVE SortBySimilarityDesc(_, _)
SortBySimilarityDesc(sorted, rest) ==
    IF rest = <<>> THEN sorted
    ELSE SortBySimilarityDesc(InsertBySimilarity(sorted, Head(rest)), Tail(rest))

\* get_similar_documents
get_similar_documents(engine, doc_id, limit_arg) ==
    IF doc_id \notin DOMAIN engine.document_index THEN <<>>
    ELSE SlicePrefix(
            SortBySimilarityDesc(<<>>,
                Similarities(engine, doc_id, IdsInOrder(DOMAIN engine.document_index))),
            limit_arg)

\* =========================================================================
\* State
\* =========================================================================
VARIABLES
    documents,        \* the files find_documents returned
    pc,               \* position of the command-line run
    document_index,   \* the processor's result, or what load_index returned
    inverted_index,
    json_file,        \* chinese_documents.json (None: absent)
    pkl_file,         \* chinese_inverted_index.pkl (None: absent)
    search_engine,    \* the engine object in use (None: unset)
    query,            \* arguments of the last search
    limit,
    scored_docs,      \* search's sorted list before it is cut to limit
    results,          \* what the last search returned
    last_indexed,     \* the service's global timestamp (None: unset)
    rebuild,          \* per rebuild request thread: position and locals
    request,          \* the query request thread: position, reads, response
    builds,           \* rebuild requests received so far
    jieba             \* the process's segmenter: user dictionary and worker pool

vars == <<documents, pc, document_index, inverted_index, json_file, pkl_file,
          search_engine, query, limit, scored_docs, results,
          last_indexed, rebuild, request, builds, jieba>>

serviceVars == <<last_indexed, rebuild, request, builds>>
cliVars == <<documents, document_index, inverted_index, query, limit, scored_docs, results>>

\* the module jieba of a process that has just imported it: no user
\* dictionary loaded, and workers that know none
FreshJieba == [start_method |-> "fork", userdict |-> {}, pool |-> {}]

RebuildThreads == {"r1", "r2"}

IdleRebuild ==
    [pc |-> "idle", documents |-> <<>>, document_index |-> EmptyMap,
     inverted_index |-> EmptyMap, generation |-> 0, response |-> None]

IdleRequest == [op |-> "none", pc |-> "idle", arg |-> <<>>, seen |-> <<>>, response |-> None]

\* -------------------------------------------------------------------------
\* chinese_cli.py build-index, then a load of what it saved
\* -------------------------------------------------------------------------
InitBuild ==
    /\ jieba = FreshJieba
    /\ documents = <<>>
    /\ pc = "scan"
    /\ document_index = EmptyMap
    /\ inverted_index = EmptyMap
    /\ json_file = None
    /\ pkl_file = None
    /\ search_engine = None
    /\ query = <<>>
    /\ limit = 0
    /\ scored_docs = <<>>
    /\ results = <<>>
    /\ last_indexed = None
    /\ rebuild = [t \in RebuildThreads |-> IdleRebuild]
    /\ request = IdleRequest
    /\ builds = 0

\* find_documents comes upon one more file
ScanFile(files, max) ==
    /\ pc = "scan"
    /\ Len(documents) < max
    /\ \E src \in files : documents' = Append(documents, src)
    /\ UNCHANGED <<pc, document_index, inverted_index, json_file, pkl_file,
                   search_engine, query, limit, scored_docs, results>>
    /\ UNCHANGED <<serviceVars, jieba>>

ScanSourceFile == ScanFile(Sources, MaxDocs)

\* `if not documents: return`, else process_documents; `if not document_index: return`;
\* an exception of process_documents ends the command at `except Exception`
ProcessDocuments ==
    /\ pc = "scan"
    /\ IF documents = <<>>
       THEN /\ pc' = "no_documents"
            /\ UNCHANGED <<document_index, inverted_index>>
       ELSE IF BuildRaises(documents)
       THEN /\ pc' = "raised"
            /\ UNCHANGED <<document_index, inverted_index>>
       ELSE /\ document_index' = process_documents(documents)[1]
            /\ inverted_index' = process_documents(documents)[2]
            /\ pc' = IF DOMAIN process_documents(documents)[1] = {}
                     THEN "no_valid_documents" ELSE "processed"
    /\ UNCHANGED <<documents, json_file, pkl_file, search_engine, query, limit,
                   scored_docs, results>>
    /\ UNCHANGED <<serviceVars, jieba>>

\* save_index
SaveIndex ==
    /\ pc = "processed"
    /\ json_file' = JsonDump(document_index)
    /\ pkl_file' = PickleDump(inverted_index)
    /\ pc' = "saved"
    /\ UNCHANGED <<documents, document_index, inverted_index, search_engine,
                   query, limit, scored_docs, results>>
    /\ UNCHANGED <<serviceVars, jieba>>

\* load_index of the saved files, by a later command
LoadIndex ==
    /\ pc = "saved"
    /\ document_index' = load_index(json_file, pkl_file)[1]
    /\ inverted_index' = load_index(json_file, pkl_file)[2]
    /\ pc' = "loaded"
    /\ UNCHANGED <<documents, json_file, pkl_file, search_engine, query, limit,
                   scored_docs, results>>
    /\ UNCHANGED <<serviceVars, jieba>>

NextBuild == ScanSourceFile \/ ProcessDocuments \/ SaveIndex \/ LoadIndex

SpecBuild == InitBuild /\ [][NextBuild]_vars

\* -------------------------------------------------------------------------
\* an engine over a built index, and searches on it
\* -------------------------------------------------------------------------
SearchTitles == {<<"outang">>, <<"lianou", "tang">>, <<"de">>}

SearchSources ==
    {[text |-> <<w>>, chinese_chars |-> MIN_CHINESE_CHARS, title |-> t] :
        w \in {"outang", "tang"}, t \in SearchTitles}
    \cup {BlankSource}

Queries == SeqsUpTo(Vocabulary, MaxQueryLen)

Limits == {0 - 1, 0, 1, 2, MAX_RESULTS_LIMIT + 1}

ScanCorpusFile == ScanFile(SearchSources, MaxCorpus)

\* process_documents, then ChineseBM25Search(document_index, inverted_index)
BuildEngine ==
    /\ pc = "scan"
    /\ documents # <<>>
    /\ DOMAIN process_documents(documents)[1] # {}
    /\ document_index' = process_documents(documents)[1]
    /\ inverted_index' = process_documents(documents)[2]
    /\ search_engine' = NewEngine(process_documents(documents)[1],
                                  process_documents(documents)[2], 1)
    /\ pc' = "ready"
    /\ UNCHANGED <<documents, json_file, pkl_file, query, limit, scored_docs, results>>
    /\ UNCHANGED <<serviceVars, jieba>>

\* search_engine.search(query, limit)
Search ==
    /\ pc = "ready"
    /\ \E q \in Queries :
         \E order \in Orders(CandidateDocs(search_engine, preprocess_text(q))) :
            LET ranking == Ranking(search_engine, preprocess_text(q), order)
            IN \E l \in Limits :
                 /\ query' = q
                 /\ limit' = l
                 /\ scored_docs' = ranking
                 /\ results' = SearchReturn(search_engine, preprocess_text(q), l, ranking)
    /\ pc' = "searched"
    /\ UNCHANGED <<documents, document_index, inverted_index, json_file, pkl_file,
                   search_engine>>
    /\ UNCHANGED <<serviceVars, jieba>>

NextSearch == ScanCorpusFile \/ BuildEngine \/ Search

SpecSearch == InitBuild /\ [][NextSearch]_vars

\* -------------------------------------------------------------------------
\* The service.  api_server.py and chinese_api.py are two Flask applications
\* of one shape: a module-level search_engine and last_indexed, a rebuild
\* endpoint that assigns them, and query endpoints that read search_engine.
\* Flask serves every request on a thread of its own (threaded=True), so
\* handlers interleave at every access to the globals and to the files.
\* The generation of an engine is a label of the model: 0 for the index
\* loaded at start-up, n for the index of the n-th rebuild request.
\* -------------------------------------------------------------------------
ServiceSourceA == [text |-> <<"outang">>, chinese_chars |-> MIN_CHINESE_CHARS,
                   title |-> <<"outang">>]
ServiceSourceB == [text |-> <<"tang">>, chinese_chars |-> MIN_CHINESE_CHARS,
                   title |-> <<"de">>]

\* what DOCUMENTS_DIR may hold when a rebuild scans it
ServiceCorpora ==
    {<<>>, <<BlankSource>>, <<ServiceSourceA>>, <<ServiceSourceB, ServiceSourceA>>,
     <<UnreadableSource>>}

\* what an earlier run of the service may have left in INDEX_DIR
StoredIndex == process_documents(<<ServiceSourceB>>)

QueryOps == {"search", "stats", "term", "similar", "document"}

ArgsOf(op) ==
    CASE op = "search"   -> {<<"outang">>}
      [] op = "term"     -> {<<"tang">>}
      [] op = "similar"  -> {0}
      [] op = "document" -> {0}
      [] OTHER           -> {<<>>}

InitService ==
    /\ jieba = FreshJieba
    /\ pc = "import"
    /\ json_file \in {None, JsonDump(StoredIndex[1])}
    /\ pkl_file \in {None, PickleDump(StoredIndex[2])}
    /\ search_engine = None
    /\ last_indexed = None
    /\ rebuild = [t \in RebuildThreads |-> IdleRebuild]
    /\ request = IdleRequest
    /\ builds = 0
    /\ documents = <<>>
    /\ document_index = EmptyMap
    /\ inverted_index = EmptyMap
    /\ query = <<>>
    /\ limit = 0
    /\ scored_docs = <<>>
    /\ results = <<>>

\* initialize_search_engine, run when the module is imported: if
\* chinese_documents.json exists, load_index; an exception of the load is
\* caught and leaves the engine unset, as a missing file does
InitializeSearchEngine ==
    /\ pc = "import"
    /\ pc' = "serving"
    /\ IF json_file # None /\ LoadOutcome(json_file, pkl_file).ok
       THEN /\ search_engine' = NewEngine(LoadOutcome(json_file, pkl_file).index[1],
                                          LoadOutcome(json_file, pkl_file).index[2], 0)
            /\ last_indexed' = [at |-> 0]
       ELSE UNCHANGED <<search_engine, last_indexed>>
    /\ UNCHANGED <<json_file, pkl_file, rebuild, request, builds>>
    /\ UNCHANGED <<cliVars, jieba>>

\* ---- POST /build_index (rebuild_index, build_chinese_index)
\* processor = ChineseDocumentProcessor(); documents = find_documents(...);
\* `if not documents: return 400`
RebuildFind(t) ==
    /\ pc = "serving"
    /\ rebuild[t].pc = "idle"
    /\ builds < MaxRebuilds
    /\ builds' = builds + 1
    /\ \E corpus \in ServiceCorpora :
         rebuild' = [rebuild EXCEPT ![t] =
            IF corpus = <<>>
            THEN [IdleRebuild EXCEPT !.response = [code |-> "NO_DOCUMENTS"]]
            ELSE [IdleRebuild EXCEPT !.pc = "process", !.documents = corpus,
                                     !.generation = builds + 1]]
    /\ UNCHANGED <<pc, json_file, pkl_file, search_engine, last_indexed, request>>
    /\ UNCHANGED <<cliVars, jieba>>

\* process_documents(documents); `if not document_index: return 400`; an
\* exception of process_documents is answered 500 by `except Exception`
RebuildProcess(t) ==
    /\ rebuild[t].pc = "process"
    /\ LET built == process_documents(rebuild[t].documents)
       IN rebuild' = [rebuild EXCEPT ![t] =
            IF BuildRaises(rebuild[t].documents)
            THEN [@ EXCEPT !.pc = "idle", !.response = [code |-> "INDEX_BUILD_ERROR"]]
            ELSE IF DOMAIN built[1] = {}
            THEN [@ EXCEPT !.pc = "idle", !.response = [code |-> "NO_VALID_DOCUMENTS"]]
            ELSE [@ EXCEPT !.pc = "save_json", !.document_index = built[1],
                           !.inverted_index = built[2]]]
    /\ UNCHANGED <<pc, json_file, pkl_file, search_engine, last_indexed, request, builds>>
    /\ UNCHANGED <<cliVars, jieba>>

\* save_index, first file
RebuildSaveJson(t) ==
    /\ rebuild[t].pc = "save_json"
    /\ json_file' = JsonDump(rebuild[t].document_index)
    /\ rebuild' = [rebuild EXCEPT ![t].pc = "save_pkl"]
    /\ UNCHANGED <<pc, pkl_file, search_engine, last_indexed, request, builds>>
    /\ UNCHANGED <<cliVars, jieba>>

\* save_index, second file
RebuildSavePkl(t) ==
    /\ rebuild[t].pc = "save_pkl"
    /\ pkl_file' = PickleDump(rebuild[t].inverted_index)
    /\ rebuild' = [rebuild EXCEPT ![t].pc = "swap"]
    /\ UNCHANGED <<pc, json_file, search_engine, last_indexed, request, builds>>
    /\ UNCHANGED <<cliVars, jieba>>

\* a failed save that drops the engine in use
RebuildSaveFails_DropsEngine(t) ==
    /\ rebuild[t].pc \in {"save_json", "save_pkl"}
    /\ rebuild' = [rebuild EXCEPT ![t].pc = "idle",
                                  ![t].response = [code |-> "INDEX_BUILD_ERROR"]]
    /\ search_engine' = None
    /\ UNCHANGED <<pc, json_file, pkl_file, last_indexed, request, builds>>
    /\ UNCHANGED <<cliVars, jieba>>

\* a write of save_index raises (disk full, no permission): `except Exception`
\* answers 500
RebuildSaveFails(t) ==
    /\ rebuild[t].pc \in {"save_json", "save_pkl"}
    /\ rebuild' = [rebuild EXCEPT ![t].pc = "idle",
                                  ![t].response = [code |-> "INDEX_BUILD_ERROR"]]
    /\ UNCHANGED <<pc, json_file, pkl_file, search_engine, last_indexed, request, builds>>
    /\ UNCHANGED <<cliVars, jieba>>

\* search_engine = ChineseBM25Search(document_index, inverted_index)
RebuildSwap(t) ==
    /\ rebuild[t].pc = "swap"
    /\ search_engine' = NewEngine(rebuild[t].document_index, rebuild[t].inverted_index,
                                  rebuild[t].generation)
    /\ rebuild' = [rebuild EXCEPT ![t].pc = "stamp"]
    /\ UNCHANGED <<pc, json_file, pkl_file, last_indexed, request, builds>>
    /\ UNCHANGED <<cliVars, jieba>>

\* last_indexed = datetime.now(); return success
RebuildStamp(t) ==
    /\ rebuild[t].pc = "stamp"
    /\ last_indexed' = [at |-> rebuild[t].generation]
    /\ rebuild' = [rebuild EXCEPT ![t].pc = "idle", ![t].response = [code |-> "SUCCESS"]]
    /\ UNCHANGED <<pc, json_file, pkl_file, search_engine, request, builds>>
    /\ UNCHANGED <<cliVars, jieba>>

\* ---- the query endpoints
\* a guard that lets every request through
EngineNotReady_Never(engine) == FALSE

\* `if not search_engine` / `if search_engine is None`
EngineNotReady(engine) == engine = None

\* one read of a field of the engine the global names at this moment
Seen(field, engine) == <<field, engine.generation>>

ReceiveRequest ==
    /\ pc = "serving"
    /\ request.pc \in {"idle", "done"}
    /\ \E op \in QueryOps : \E arg \in ArgsOf(op) :
          request' = [op |-> op, pc |-> "check", arg |-> arg, seen |-> <<>>,
                      response |-> None]
    /\ UNCHANGED <<pc, json_file, pkl_file, search_engine, last_indexed, rebuild, builds>>
    /\ UNCHANGED <<cliVars, jieba>>

\* the guard every query handler starts with
CheckEngine ==
    /\ request.pc = "check"
    /\ request' = IF EngineNotReady(search_engine)
                  THEN [request EXCEPT !.pc = "done",
                                       !.response = [code |-> "ENGINE_NOT_READY"]]
                  ELSE [request EXCEPT !.pc = "run"]
    /\ UNCHANGED <<pc, json_file, pkl_file, search_engine, last_indexed, rebuild, builds>>
    /\ UNCHANGED <<cliVars, jieba>>

\* `doc_data = self.document_index[doc_id]` raises KeyError for a candidate
\* the document index does not hold
SearchRaises(engine, query_terms) ==
    \E d \in CandidateDocs(engine, query_terms) : d \notin DOMAIN engine.document_index

\* a handler that uses the global while it is None, or whose operation
\* raises: the exception is caught by the handler's `except Exception`
Answer500 == [request EXCEPT !.pc = "done", !.response = [code |-> "ERROR_500"]]

\* search_documents: results = search_engine.search(query, limit), the limit
\* (default 10) clamped by the handler
RunSearch ==
    /\ request.pc = "run" /\ request.op = "search"
    /\ IF search_engine = None \/ SearchRaises(search_engine, preprocess_text(request.arg))
       THEN request' = Answer500
       ELSE \E order \in Orders(CandidateDocs(search_engine, preprocess_text(request.arg))) :
              request' = [request EXCEPT
                 !.pc = "done",
                 !.seen = <<Seen("document_index", search_engine),
                            Seen("inverted_index", search_engine),
                            Seen("num_documents", search_engine),
                            Seen("avg_doc_length", search_engine)>>,
                 !.response = [code |-> "OK",
                               results |-> search(search_engine, request.arg,
                                                  Min(Max(1, DEFAULT_RESULTS_LIMIT),
                                                      MAX_RESULTS_LIMIT), order)]]
    /\ UNCHANGED <<pc, json_file, pkl_file, search_engine, last_indexed, rebuild, builds>>
    /\ UNCHANGED <<cliVars, jieba>>

\* get_term_info: stats = search_engine.get_term_statistics(term)
RunTerm ==
    /\ request.pc = "run" /\ request.op = "term"
    /\ request' = IF search_engine = None THEN Answer500
                  ELSE [request EXCEPT
                          !.pc = "done",
                          !.seen = <<Seen("inverted_index", search_engine),
                                     Seen("num_documents", search_engine)>>,
                          !.response = [code |-> "OK",
                                        term_info |-> get_term_statistics(search_engine,
                                                                          request.arg)]]
    /\ UNCHANGED <<pc, json_file, pkl_file, search_engine, last_indexed, rebuild, builds>>
    /\ UNCHANGED <<cliVars, jieba>>

\* chinese_similar_documents: search_engine.get_similar_documents(doc_id, limit)
RunSimilar ==
    /\ request.pc = "run" /\ request.op = "similar"
    /\ request' = IF search_engine = None THEN Answer500
                  ELSE [request EXCEPT
                          !.pc = "done",
                          !.seen = <<Seen("document_index", search_engine)>>,
                          !.response = [code |-> "OK",
                                        similar_documents |->
                                           get_similar_documents(search_engine,
                                                                 request.arg, 5)]]
    /\ UNCHANGED <<pc, json_file, pkl_file, search_engine, last_indexed, rebuild, builds>>
    /\ UNCHANGED <<cliVars, jieba>>

\* get_chinese_document: `if doc_id not in search_engine.document_index: 404`
RunDocumentMember ==
    /\ request.pc = "run" /\ request.op = "document"
    /\ request' = IF search_engine = None THEN Answer500
                  ELSE IF request.arg \notin DOMAIN search_engine.document_index
                  THEN [request EXCEPT !.pc = "done",
                                       !.seen = <<Seen("document_index", search_engine)>>,
                                       !.response = [code |-> "NOT_FOUND"]]
                  ELSE [request EXCEPT !.pc = "read",
                                       !.seen = <<Seen("document_index", search_engine)>>]
    /\ UNCHANGED <<pc, json_file, pkl_file, search_engine, last_indexed, rebuild, builds>>
    /\ UNCHANGED <<cliVars, jieba>>

\* get_chinese_document: doc_data = search_engine.document_index[doc_id]
RunDocumentRead ==
    /\ request.pc = "read" /\ request.op = "document"
    /\ request' = IF search_engine = None THEN Answer500
                  ELSE IF request.arg \notin DOMAIN search_engine.document_index
                  THEN Answer500
                  ELSE [request EXCEPT
                          !.pc = "done",
                          !.seen = Append(@, Seen("document_index", search_engine)),
                          !.response =
                             [code |-> "OK", doc_id |-> request.arg,
                              title |-> search_engine.document_index[request.arg].title,
                              length |-> search_engine.document_index[request.arg].length]]
    /\ UNCHANGED <<pc, json_file, pkl_file, search_engine, last_indexed, rebuild, builds>>
    /\ UNCHANGED <<cliVars, jieba>>

RECURSIVE SumChineseChars(_, _)
SumChineseChars(index, ids) ==
    IF ids = {} THEN 0
    ELSE LET d == CHOOSE x \in ids : TRUE
         IN index[d].chinese_chars + SumChineseChars(index, ids \ {d})

\* get_statistics: total_chars = sum(... search_engine.document_index.values())
StatsReadDocuments ==
    /\ request.pc = "run" /\ request.op = "stats"
    /\ request' = IF search_engine = None THEN Answer500
                  ELSE [request EXCEPT
                          !.pc = "stats_terms",
                          !.seen = <<Seen("document_index", search_engine)>>,
                          !.response =
                             [code |-> "OK",
                              total_chinese_characters |->
                                 SumChineseChars(search_engine.document_index,
                                                 DOMAIN search_engine.document_index)]]
    /\ UNCHANGED <<pc, json_file, pkl_file, search_engine, last_indexed, rebuild, builds>>
    /\ UNCHANGED <<cliVars, jieba>>

\* get_statistics: `for term, docs in search_engine.inverted_index.items()`
StatsReadTerms ==
    /\ request.pc = "stats_terms"
    /\ request' = IF search_engine = None THEN Answer500
                  ELSE [request EXCEPT
                          !.pc = "stats_count",
                          !.seen = Append(@, Seen("inverted_index", search_engine)),
                          !.response =
                             [code |-> "OK",
                              total_chinese_characters |-> @.total_chinese_characters,
                              term_frequencies |->
                                 [t \in DOMAIN search_engine.inverted_index |->
                                     SumPostings(search_engine.inverted_index[t])]]]
    /\ UNCHANGED <<pc, json_file, pkl_file, search_engine, last_indexed, rebuild, builds>>
    /\ UNCHANGED <<cliVars, jieba>>

\* get_statistics: "documents_count": search_engine.num_documents and
\* "vocabulary_size": len(search_engine.inverted_index)
StatsReadCount ==
    /\ request.pc = "stats_count"
    /\ request' = IF search_engine = None THEN Answer500
                  ELSE [request EXCEPT
                          !.pc = "stats_avg",
                          !.seen = Append(@, Seen("num_documents", search_engine)),
                          !.response =
                             [code |-> "OK",
                              total_chinese_characters |-> @.total_chinese_characters,
                              term_frequencies |-> @.term_frequencies,
                              documents_count |-> search_engine.num_documents,
                              vocabulary_size |->
                                 Cardinality(DOMAIN search_engine.inverted_index)]]
    /\ UNCHANGED <<pc, json_file, pkl_file, search_engine, last_indexed, rebuild, builds>>
    /\ UNCHANGED <<cliVars, jieba>>

\* get_statistics: "average_document_length": search_engine.avg_doc_length
StatsReadAverage ==
    /\ request.pc = "stats_avg"
    /\ request' = IF search_engine = None THEN Answer500
                  ELSE [request EXCEPT
                          !.pc = "done",
                          !.seen = Append(@, Seen("avg_doc_length", search_engine)),
                          !.response =
                             [code |-> "OK",
                              total_chinese_characters |-> @.total_chinese_characters,
                              term_frequencies |-> @.term_frequencies,
                              documents_count |-> @.documents_count,
                              vocabulary_size |-> @.vocabulary_size,
                              average_document_length |-> search_engine.avg_doc_length]]
    /\ UNCHANGED <<pc, json_file, pkl_file, search_engine, last_indexed, rebuild, builds>>
    /\ UNCHANGED <<cliVars, jieba>>

Rebuild(t) ==
    \/ RebuildFind(t) \/ RebuildProcess(t) \/ RebuildSaveJson(t) \/ RebuildSavePkl(t)
    \/ RebuildSaveFails(t) \/ RebuildSwap(t) \/ RebuildStamp(t)

Next ==
    \/ InitializeSearchEngine
    \/ \E t \in RebuildThreads : Rebuild(t)
    \/ ReceiveRequest \/ CheckEngine
    \/ RunSearch \/ RunTerm \/ RunSimilar \/ RunDocumentMember \/ RunDocumentRead
    \/ StatsReadDocuments \/ StatsReadTerms \/ StatsReadCount \/ StatsReadAverage

Spec == InitService /\ [][Next]_vars

\* ---- the service over several runs.  The process ends (with its threads,
\* whatever they were doing) and api_server is started again: the module is
\* imported anew with search_engine = None and last_indexed = None, and
\* INDEX_DIR is as the ended run left it.
Restart ==
    /\ pc = "serving"
    /\ pc' = "import"
    /\ search_engine' = None
    /\ last_indexed' = None
    /\ rebuild' = [t \in RebuildThreads |-> IdleRebuild]
    /\ request' = IdleRequest
    /\ UNCHANGED <<json_file, pkl_file, builds>>
    /\ UNCHANGED <<cliVars, jieba>>

NextRuns == Next \/ Restart

SpecRuns == InitService /\ [][NextRuns]_vars

\* -------------------------------------------------------------------------
\* The segmenter.  jieba is one module per process: load_userdict changes its
\* dictionary for every processor of the process, and every
\* ChineseDocumentProcessor() calls jieba.enable_parallel(4), which makes a
\* new pool of worker processes and sends every later cut to them.  The
\* workers know the dictionary their start method gives them: under fork the
\* dictionary of the process when the pool was made, under spawn the default
\* dictionary.  A new process starts with the default dictionary: nothing
\* loads custom_dict.txt but add_custom_dictionary during a build.
\* A text is the sequence of its words; what depends on the dictionary here
\* is the part-of-speech tag of a word, which custom_dict.txt sets to n.
\* -------------------------------------------------------------------------
StartMethods == {"fork", "spawn"}

\* the tags preprocess_text keeps
meaningful_pos == {"n", "nr", "ns", "nt", "nz", "v", "vd", "vn", "a", "ad", "an",
                   "i", "l", "j", "eng", "m", "x"}

\* the tag of a word in the default dictionary: 分钟 is a measure word (q)
DefaultTag(w) == IF w = "fenzhong" THEN "q" ELSE "n"

\* custom_dict.txt holds `term count n`, so a word of the user dictionary
\* is tagged n
Tag(userdict, w) == IF w \in userdict THEN "n" ELSE DefaultTag(w)

\* `pos in meaningful_pos`, by workers that know the dictionary `known`
PosFilter(known, text) == SelectSeq(text, LAMBDA w : Tag(known, w) \in meaningful_pos)

\* Pool(processnum): what the workers of a new pool know
NewPool(j) == IF j.start_method = "fork" THEN j.userdict ELSE {}

\* ChineseDocumentProcessor(): jieba.enable_parallel(4) replaces the pool
NewProcessor(j) == [j EXCEPT !.pool = NewPool(j)]

RECURSIVE CountInSample(_, _)
CountInSample(w, sample) ==
    IF sample = <<>> THEN 0
    ELSE (IF Head(sample).long
          THEN Cardinality({i \in DOMAIN Head(sample).text : Head(sample).text[i] = w})
          ELSE 0)
         + CountInSample(w, Tail(sample))

\* add_custom_dictionary(documents_sample), of a processor that has not
\* loaded one: the words of two characters or more, not stop words, counted
\* twice or more in the sample's texts of more than 100 characters, are
\* written to custom_dict.txt and loaded with jieba.load_userdict
add_custom_dictionary(j, documents_sample) ==
    LET words == UNION {Range(documents_sample[i].text) : i \in DOMAIN documents_sample}
        added == {w \in words : /\ Len(Chars(w)) >= 2
                                /\ w \notin stop_words
                                /\ CountInSample(w, documents_sample) >= 2}
    IN IF added # {} THEN [j EXCEPT !.userdict = @ \cup added] ELSE j

\* a source as the workers hand it to the rest of preprocess_text
CutUnder(known, src) ==
    [src EXCEPT !.text = PosFilter(known, src.text),
                !.title = PosFilter(known, src.title)]

\* process_documents after its call of add_custom_dictionary, cut by workers
\* that know the dictionary `known`; total_chars is len(text_content)
ProcessUnder(known, sources) ==
    LET built == process_documents([i \in DOMAIN sources |-> CutUnder(known, sources[i])])
    IN <<[d \in DOMAIN built[1] |->
            [built[1][d] EXCEPT !.total_chars = Len(sources[d + 1].text)]],
         built[2]>>

\* what DOCUMENTS_DIR holds: a text of more than 100 characters that names
\* 分钟 twice, a short text that names it once, and a text without it
LongSource == [text |-> <<"tang", "fenzhong", "fenzhong">>,
               chinese_chars |-> MIN_CHINESE_CHARS, title |-> <<"tang">>, long |-> TRUE]
ShortSource == [text |-> <<"fenzhong", "tang">>,
                chinese_chars |-> MIN_CHINESE_CHARS, title |-> <<"lianou", "tang">>,
                long |-> FALSE]
PlainSource == [text |-> <<"outang">>,
                chinese_chars |-> MIN_CHINESE_CHARS, title |-> <<"tang">>, long |-> FALSE]

SegmenterCorpora == SeqsUpTo({LongSource, ShortSource, PlainSource}, MaxDocs) \ {<<>>}

InitSegmenter ==
    /\ pc = "import"
    /\ documents \in SegmenterCorpora
    /\ jieba \in {[FreshJieba EXCEPT !.start_method = m] : m \in StartMethods}
    /\ json_file = None
    /\ pkl_file = None
    /\ search_engine = None
    /\ last_indexed = None
    /\ rebuild = [t \in RebuildThreads |-> IdleRebuild]
    /\ request = IdleRequest
    /\ builds = 0
    /\ document_index = EmptyMap
    /\ inverted_index = EmptyMap
    /\ query = <<>>
    /\ limit = 0
    /\ scored_docs = <<>>
    /\ results = <<>>

\* initialize_search_engine: processor = ChineseDocumentProcessor(), and if the
\* index loads, ChineseBM25Search(...) with a processor of its own
StartService ==
    /\ pc = "import"
    /\ pc' = "serving"
    /\ IF json_file # None /\ LoadOutcome(json_file, pkl_file).ok
       THEN /\ search_engine' = NewEngine(LoadOutcome(json_file, pkl_file).index[1],
                                          LoadOutcome(json_file, pkl_file).index[2], 0)
            /\ last_indexed' = [at |-> 0]
            /\ jieba' = NewProcessor(NewProcessor(jieba))
       ELSE /\ jieba' = NewProcessor(jieba)
            /\ UNCHANGED <<search_engine, last_indexed>>
    /\ UNCHANGED <<documents, json_file, pkl_file, rebuild, request, builds,
                   document_index, inverted_index, query, limit, scored_docs, results>>

\* rebuild_index, one request served from beginning to end: a new processor,
\* process_documents (add_custom_dictionary(documents[:3]), then the cut of
\* every document), save_index, a new engine with a processor of its own.
\* The first request of a run is served by thread r1, the next by r2.
RebuildOnce(t) ==
    /\ pc = "serving"
    /\ builds < MaxRebuilds
    /\ rebuild[t].response = None
    /\ \A u \in RebuildThreads : (u = "r1" /\ t # u) => rebuild[u].response # None
    /\ builds' = builds + 1
    /\ LET processor == NewProcessor(jieba)
           loaded == add_custom_dictionary(processor,
                                           SubSeq(documents, 1, Min(3, Len(documents))))
           built == ProcessUnder(loaded.pool, documents)
       IN IF DOMAIN built[1] = {}
          THEN /\ rebuild' = [rebuild EXCEPT ![t].response = [code |-> "NO_VALID_DOCUMENTS"]]
               /\ jieba' = loaded
               /\ UNCHANGED <<json_file, pkl_file, search_engine, last_indexed>>
          ELSE /\ rebuild' = [rebuild EXCEPT ![t].documents = documents,
                                             ![t].document_index = built[1],
                                             ![t].inverted_index = built[2],
                                             ![t].generation = builds + 1,
                                             ![t].response = [code |-> "SUCCESS"]]
               /\ json_file' = JsonDump(built[1])
               /\ pkl_file' = PickleDump(built[2])
               /\ search_engine' = NewEngine(built[1], built[2], builds + 1)
               /\ last_indexed' = [at |-> builds + 1]
               /\ jieba' = NewProcessor(loaded)
    /\ UNCHANGED <<pc, documents, request,
                   document_index, inverted_index, query, limit, scored_docs, results>>

\* search_documents with the text of an indexed file as the query:
\* self.processor.preprocess_text(query) is cut by the pool of the moment
SearchForText ==
    /\ pc = "serving"
    /\ search_engine # None
    /\ \E i \in DOMAIN documents :
         LET cut == PosFilter(jieba.pool, documents[i].text)
         IN \E order \in Orders(CandidateDocs(search_engine, preprocess_text(cut))) :
              request' = [op |-> "search", pc |-> "done", arg |-> documents[i].text,
                          seen |-> <<>>, tokens |-> preprocess_text(cut),
                          response |-> [code |-> "OK",
                                        results |-> search(search_engine, cut,
                                                           DEFAULT_RESULTS_LIMIT, order)]]
    /\ UNCHANGED <<pc, documents, json_file, pkl_file, search_engine, last_indexed,
                   rebuild, builds, jieba,
                   document_index, inverted_index, query, limit, scored_docs, results>>

\* the process ends and the service is started again, in a new process
RestartProcess ==
    /\ pc = "serving"
    /\ pc' = "import"
    /\ jieba' = [jieba EXCEPT !.userdict = {}, !.pool = {}]
    /\ search_engine' = None
    /\ last_indexed' = None
    /\ rebuild' = [t \in RebuildThreads |-> IdleRebuild]
    /\ request' = IdleRequest
    /\ UNCHANGED <<documents, json_file, pkl_file, builds,
                   document_index, inverted_index, query, limit, scored_docs, results>>

NextSegmenter ==
    \/ StartService
    \/ \E t \in RebuildThreads : RebuildOnce(t)
    \/ SearchForText
    \/ RestartProcess

SpecSegmenter == InitSegmenter /\ [][NextSegmenter]_vars


\* =========================================================================
\* Properties of the service (Spec)
\* =========================================================================
GenerationsSeen == {request.seen[i][2] : i \in DOMAIN request.seen}

\* C1: a search, a statistics or a term statistics request reads its
\* document index, inverted index, document count and average document
\* length from one generation, whatever rebuild runs beside it.
C1_OneGenerationPerOperation ==
    (request.pc = "done" /\ request.op \in {"search", "stats", "term"})
        => Cardinality(GenerationsSeen) <= 1

RebuildsInFlight == {t \in RebuildThreads : rebuild[t].pc # "idle"}

\* C2: at most one rebuild is in flight at any time (a rebuild request that
\* arrives during another is turned away before it processes anything).
C2_OneRebuildInFlight == Cardinality(RebuildsInFlight) <= 1

\* C3: while search_engine is unset, every query request is answered
\* engine-not-ready at its guard, never running its operation; and
\* search_engine becomes set only by a start-up load that found both files or
\* by a rebuild that reached its assignment.
C3_NotReadyUntilBuilt ==
    [][/\ (request.pc = "check" /\ request'.pc # "check" /\ search_engine = None)
            => /\ request'.pc = "done"
               /\ request'.response = [code |-> "ENGINE_NOT_READY"]
       /\ (search_engine = None /\ search_engine' # None)
            => \/ pc = "import" /\ json_file # None /\ pkl_file # None
               \/ \E t \in RebuildThreads :
                     rebuild[t].pc = "swap" /\ rebuild'[t].pc = "stamp"
       /\ (search_engine # None) => (search_engine' # None)]_vars

\* a similarity request answered engine-not-ready after a rebuild has failed
C3_Witness ==
    /\ request.pc = "done"
    /\ request.op = "similar"
    /\ request.response = [code |-> "ENGINE_NOT_READY"]
    /\ search_engine = None
    /\ \E t \in RebuildThreads : rebuild[t].response = [code |-> "INDEX_BUILD_ERROR"]

\* =========================================================================
\* Properties of the indexer (SpecBuild)
\* =========================================================================
HasIndex == pc \in {"processed", "saved", "loaded"}

PassingPositions == {i \in DOMAIN documents : Passes(documents[i])}

\* C4: after a build the keys of the document index are exactly 0..K-1, K
\* being the number of sources that passed all filters.
C4_DenseDocIds ==
    HasIndex => DOMAIN document_index = 0..(Cardinality(PassingPositions) - 1)

PostingsOf(term, doc_id) ==
    {i \in DOMAIN inverted_index[term] : inverted_index[term][i][1] = doc_id}

\* C5: in a built generation and in a saved-then-loaded one, every
\* (term, count) of a document's term_frequencies has exactly one posting
\* (doc, count) under term, and every posting (doc, count) under a term is a
\* document of the index whose term_frequencies[term] is count.
C5_IndexesAgree ==
    HasIndex =>
      /\ \A d \in DOMAIN document_index :
           \A t \in DOMAIN document_index[d].term_frequencies :
              /\ t \in DOMAIN inverted_index
              /\ Cardinality(PostingsOf(t, d)) = 1
              /\ \A i \in PostingsOf(t, d) :
                    inverted_index[t][i][2] = document_index[d].term_frequencies[t]
      /\ \A t \in DOMAIN inverted_index :
           \A i \in DOMAIN inverted_index[t] :
              LET d == inverted_index[t][i][1]
              IN /\ d \in DOMAIN document_index
                 /\ t \in DOMAIN document_index[d].term_frequencies
                 /\ document_index[d].term_frequencies[t] = inverted_index[t][i][2]

\* a loaded generation in which some term has postings of two documents and
\* some posting counts more than one occurrence
C5_Witness ==
    /\ pc = "loaded"
    /\ \E t \in DOMAIN inverted_index :
          /\ Len(inverted_index[t]) >= 2
          /\ \E i \in DOMAIN inverted_index[t] : inverted_index[t][i][2] >= 2

RECURSIVE SumCounts(_, _)
SumCounts(term_frequencies, terms) ==
    IF terms = {} THEN 0
    ELSE LET t == CHOOSE x \in terms : TRUE
         IN term_frequencies[t] + SumCounts(term_frequencies, terms \ {t})

\* C6: for every document record the counts of term_frequencies sum to
\* length, and length is the content token count plus 5 times the title
\* token count.
C6_LengthIsSumOfCounts ==
    HasIndex =>
      \A d \in DOMAIN document_index :
         LET rec == document_index[d]
             src == documents[rec.path + 1]
         IN /\ SumCounts(rec.term_frequencies, DOMAIN rec.term_frequencies) = rec.length
            /\ rec.length = rec.tokens + 5 * rec.title_tokens
            /\ rec.tokens = Len(preprocess_text(src.text))
            /\ rec.title_tokens = Len(preprocess_text(src.title))

\* a loaded record with title tokens and a repeated content token
C6_Witness ==
    /\ pc = "loaded"
    /\ \E d \in DOMAIN document_index :
          /\ document_index[d].title_tokens >= 2
          /\ document_index[d].tokens >= 2
          /\ \E t \in DOMAIN document_index[d].term_frequencies :
                document_index[d].term_frequencies[t] = 7

\* =========================================================================
\* Properties of the ranker (SpecSearch)
\* =========================================================================
Searched == pc = "searched"

QueryTerms == preprocess_text(query)

\* C7: results are in non-increasing order of total score, and results of
\* equal total score are in ascending order of doc id.
C7_SortedWithTieBreak ==
    Searched =>
      \A i, j \in DOMAIN results :
         i < j => \/ results[i].score > results[j].score
                  \/ /\ results[i].score = results[j].score
                     /\ results[i].doc_id < results[j].doc_id

IsPrefix(s, t) == Len(s) <= Len(t) /\ SubSeq(t, 1, Len(s)) = s

\* C8: limit is clamped into [1, 50]: a limit <= 0 with candidates returns
\* exactly the top-ranked result, a limit > 50 returns at most 50 results,
\* and the returned list is always a prefix of the full ranking.
C8_LimitClamped ==
    Searched =>
      /\ (limit <= 0 /\ scored_docs # <<>>) => results = <<scored_docs[1]>>
      /\ limit > 50 => Len(results) <= 50
      /\ IsPrefix(results, scored_docs)

\* the index holds one document, the query has tokens, all of them terms of
\* that document, and the limit asks for at least one result
SingleDocQuery ==
    /\ Searched
    /\ Cardinality(DOMAIN search_engine.document_index) = 1
    /\ QueryTerms # <<>>
    /\ \A d \in DOMAIN search_engine.document_index :
          Range(QueryTerms) \subseteq DOMAIN search_engine.document_index[d].term_frequencies
    /\ limit >= 1

\* C9 as stated: on a single-document index such a query returns exactly one
\* result, whose total score is strictly greater than 0.
C9_SingleDocPositive ==
    SingleDocQuery => Len(results) = 1 /\ results[1].score > 0

\* C9 as amended: on a single-document index such a query returns (for a
\* limit of at least 1) exactly one result; its base score is 0, its total
\* score is its title bonus, and that is greater than 0 exactly when a query
\* token is a title token or the space-joined query is written in a title
\* that has tokens.
C9_SingleDocTitleOnly ==
    SingleDocQuery =>
      /\ Len(results) = 1
      /\ results[1].base_score = 0
      /\ results[1].score = results[1].title_bonus
      /\ results[1].score >= 0
      /\ results[1].score > 0 <=>
            /\ preprocess_text(results[1].title) # <<>>
            /\ \/ Range(QueryTerms) \cap Range(preprocess_text(results[1].title)) # {}
               \/ IsSubstring(JoinWithSpace(QueryTerms), Flatten(results[1].title))

\* a single-document search whose one result scores 0
C9_Witness ==
    /\ SingleDocQuery
    /\ Len(results) = 1
    /\ results[1].score = 0

ScoredIds == {scored_docs[i].doc_id : i \in DOMAIN scored_docs}

\* C10: before the cut to limit, the doc ids search has scored are exactly
\* the doc ids in the posting lists of the query tokens, once each: no
\* document without a query token, and every document with one, also when
\* its total score is 0.
C10_CandidatesAreUnion ==
    (Searched /\ QueryTerms # <<>>) =>
      /\ ScoredIds =
           {d \in DOMAIN search_engine.document_index :
               \E t \in Range(QueryTerms) :
                  /\ t \in DOMAIN search_engine.inverted_index
                  /\ \E i \in DOMAIN search_engine.inverted_index[t] :
                        search_engine.inverted_index[t][i][1] = d}
      /\ \A d \in DOMAIN search_engine.document_index :
            d \in ScoredIds <=>
               \E t \in Range(QueryTerms) :
                  t \in DOMAIN search_engine.document_index[d].term_frequencies
      /\ Len(scored_docs) = Cardinality(ScoredIds)

\* a search that scored one document 0 and left another document out
C10_Witness ==
    /\ Searched
    /\ \E i \in DOMAIN scored_docs : scored_docs[i].score = 0
    /\ \E i \in DOMAIN scored_docs : scored_docs[i].score > 0
    /\ \E d \in DOMAIN search_engine.document_index : d \notin ScoredIds

\* C11: a query that tokenizes to the empty sequence, as a query made only of
\* stop words does, makes search return the empty list for every limit, and
\* no document is scored for it.
C11_EmptyQueryEmptyResult ==
    Searched =>
      /\ (Range(query) \subseteq stop_words => QueryTerms = <<>>)
      /\ (QueryTerms = <<>> => results = <<>> /\ scored_docs = <<>>)

\* a query of stop words only, searched with a positive limit on an index
\* that holds a stop word's text in a title
C11_Witness ==
    /\ Searched
    /\ query # <<>>
    /\ Range(query) \subseteq stop_words
    /\ limit >= 1
    /\ \E d \in DOMAIN search_engine.document_index :
          search_engine.document_index[d].title = query
    /\ results = <<>>

\* =========================================================================
\* Properties of the persistence codec (SpecBuild)
\* =========================================================================
\* C12: load_index of what save_index wrote gives back the document index
\* and the inverted index that were saved: the same integer doc ids, the
\* same fields and term counts per record, the same posting lists in the
\* same order.
C12_RoundTrip ==
    pc = "loaded" =>
      /\ DOMAIN document_index \subseteq Nat
      /\ document_index = process_documents(documents)[1]
      /\ inverted_index = process_documents(documents)[2]

\* a loaded generation of two documents, the second under a doc id other
\* than 0, with a posting list that names both
C12_Witness ==
    /\ pc = "loaded"
    /\ DOMAIN document_index = {0, 1}
    /\ document_index[0] # document_index[1]
    /\ \E t \in DOMAIN inverted_index :
          /\ Len(inverted_index[t]) = 2
          /\ inverted_index[t][1][2] # inverted_index[t][2][2]

\* =========================================================================
\* Properties of the start-up load (Spec)
\* =========================================================================
\* C13: when INDEX_DIR holds only one of the two files, or neither, the load
\* fails with the file-not-found outcome, gives no index pair, and leaves
\* search_engine and last_indexed as they were.
C13_LoadNeedsBothFiles ==
    [][(pc = "import" /\ (json_file = None \/ pkl_file = None)) =>
          /\ LoadOutcome(json_file, pkl_file) = FileNotFoundError
          /\ search_engine' = search_engine
          /\ last_indexed' = last_indexed]_vars

\* the service is up after a start with chinese_documents.json alone, and no
\* rebuild has been asked for
C13_Witness ==
    /\ pc = "serving"
    /\ builds = 0
    /\ json_file # None
    /\ pkl_file = None
    /\ search_engine = None

\* the postings of an inverted index name only documents of the document
\* index, with the counts its records hold
PostingsKnown(docs, postings) ==
    \A t \in DOMAIN postings :
       \A i \in DOMAIN postings[t] :
          /\ postings[t][i][1] \in DOMAIN docs
          /\ t \in DOMAIN docs[postings[t][i][1]].term_frequencies
          /\ docs[postings[t][i][1]].term_frequencies[t] = postings[t][i][2]

\* C14: when the two files in INDEX_DIR do not fit each other (a posting
\* names a doc id or a count the document file does not have), the load
\* fails and no engine is published from them: an engine loaded at start-up
\* always has postings its document index knows.
C14_NoEngineFromMismatchedFiles ==
    (search_engine # None /\ search_engine.generation = 0) =>
        PostingsKnown(search_engine.document_index, search_engine.inverted_index)

\* =========================================================================
\* Properties of a build over sources that cannot be read (SpecBuild)
\* =========================================================================
RECURSIVE WithoutUnreadable(_)
WithoutUnreadable(sources) ==
    IF sources = <<>> THEN <<>>
    ELSE IF ReadRaises(Head(sources)) THEN WithoutUnreadable(Tail(sources))
    ELSE <<Head(sources)>> \o WithoutUnreadable(Tail(sources))

\* C15: a build over a non-empty list of sources does not raise because of
\* one source: a source that cannot be read is skipped, and the build gives
\* what it gives on the list without that source.
C15_BuildSkipsUnreadable ==
    (pc # "scan" /\ documents # <<>>) =>
        /\ pc # "raised"
        /\ HasIndex =>
              /\ document_index = process_documents(WithoutUnreadable(documents))[1]
              /\ inverted_index = process_documents(WithoutUnreadable(documents))[2]

\* =========================================================================
\* Properties of the segmenter's state (SpecSegmenter)
\* =========================================================================
\* C16: a query is cut under the tokenizer configuration the documents of
\* the generation searched were cut under, so every term that was indexed
\* from a text is among the tokens of the query that is this text.
C16_QueryCutAsDocuments ==
    (request.pc = "done" /\ request.op = "search" /\ search_engine # None) =>
        \A d \in DOMAIN search_engine.document_index :
           request.arg = documents[d + 1].text =>
              \A w \in Range(request.arg) :
                 w \in DOMAIN search_engine.document_index[d].term_frequencies
                    => w \in Range(request.tokens)

\* C17: two builds in a row in one process, on the same sources in the
\* same order, give the same term_frequencies for every document and the
\* same posting lists.
C17_RebuildGivesSameIndex ==
    (rebuild["r1"].response = [code |-> "SUCCESS"]
        /\ rebuild["r2"].response = [code |-> "SUCCESS"]
        /\ rebuild["r1"].documents = rebuild["r2"].documents) =>
       /\ DOMAIN rebuild["r1"].document_index = DOMAIN rebuild["r2"].document_index
       /\ \A d \in DOMAIN rebuild["r1"].document_index :
             rebuild["r1"].document_index[d].term_frequencies
                = rebuild["r2"].document_index[d].term_frequencies
       /\ rebuild["r1"].inverted_index = rebuild["r2"].inverted_index

\* =========================================================================
\* Properties of the title bonus (SpecSearch)
\* =========================================================================
TitleSet(doc) == Range(preprocess_text(doc.title))

\* document i of the ranking has every query token in its title, document j
\* has not, and their base scores are equal
TitleDominates(i, j) ==
    /\ scored_docs[i].base_score = scored_docs[j].base_score
    /\ Range(QueryTerms) \subseteq TitleSet(scored_docs[i])
    /\ ~(Range(QueryTerms) \subseteq TitleSet(scored_docs[j]))

\* C18: of two candidates with equal base score, the one whose title tokens
\* hold every distinct query token has the strictly greater total score and
\* stands before the other in the ranking, and in the results when both are
\* returned.
C18_TitleDominance ==
    Searched =>
      \A i, j \in DOMAIN scored_docs :
         TitleDominates(i, j) =>
            /\ scored_docs[i].score > scored_docs[j].score
            /\ i < j
            /\ \A k, l \in DOMAIN results :
                  (results[k] = scored_docs[i] /\ results[l] = scored_docs[j]
                     /\ scored_docs[i] # scored_docs[j]) => k < l

\* both are returned, and the dominated one has a title bonus of its own
C18_Witness ==
    /\ Searched
    /\ \E i, j \in DOMAIN scored_docs :
          /\ TitleDominates(i, j)
          /\ scored_docs[j].title_bonus > 0
          /\ \E k, l \in DOMAIN results :
                results[k] = scored_docs[i] /\ results[l] = scored_docs[j]

\* -------------------------------------------------------------------------
\* the read-only utilities called on an engine over a built index
\* -------------------------------------------------------------------------
\* the doc ids a caller asks about: those of a full corpus and one beyond
LookupIds == 0..MaxCorpus

\* search_engine.get_similar_documents(doc_id, limit)
SimilarDocuments ==
    /\ pc = "ready"
    /\ \E d \in LookupIds : \E l \in Limits :
         /\ request' = [op |-> "similar", arg |-> d, limit |-> l]
         /\ results' = get_similar_documents(search_engine, d, l)
    /\ pc' = "looked"
    /\ UNCHANGED <<documents, document_index, inverted_index, json_file, pkl_file,
                   search_engine, query, limit, scored_docs>>
    /\ UNCHANGED <<last_indexed, rebuild, builds, jieba>>

\* search_engine.get_term_statistics(term)
TermStatistics ==
    /\ pc = "ready"
    /\ \E w \in Vocabulary :
         /\ request' = [op |-> "term", arg |-> <<w>>, limit |-> 0]
         /\ results' = get_term_statistics(search_engine, <<w>>)
    /\ pc' = "looked"
    /\ UNCHANGED <<documents, document_index, inverted_index, json_file, pkl_file,
                   search_engine, query, limit, scored_docs>>
    /\ UNCHANGED <<last_indexed, rebuild, builds, jieba>>

\* analyze_query: one entry for every term of the tokenized query
RECURSIVE TermAnalysis(_, _)
TermAnalysis(engine, query_terms) ==
    IF query_terms = <<>> THEN <<>>
    ELSE LET term == Head(query_terms)
             term_stats == get_term_statistics(engine, <<term>>)
             total_frequency == IF "total_frequency" \in DOMAIN term_stats
                                THEN term_stats.total_frequency ELSE 0
             document_frequency == IF "document_frequency" \in DOMAIN term_stats
                                   THEN term_stats.document_frequency ELSE 0
         IN <<[term |-> term,
               frequency |-> total_frequency,
               document_coverage |-> document_frequency,
               rarity_score |-> IF document_frequency < 2 THEN "rare" ELSE "common"]>>
            \o TermAnalysis(engine, Tail(query_terms))

analyze_query(engine, query_text) ==
    [original_query |-> query_text,
     processed_terms |-> preprocess_text(query_text),
     term_count |-> Len(preprocess_text(query_text)),
     term_analysis |-> TermAnalysis(engine, preprocess_text(query_text))]

\* search_engine.analyze_query(query)
AnalyzeQuery ==
    /\ pc = "ready"
    /\ \E q \in Queries :
         /\ request' = [op |-> "analyze", arg |-> q, limit |-> 0]
         /\ results' = analyze_query(search_engine, q)
    /\ pc' = "looked"
    /\ UNCHANGED <<documents, document_index, inverted_index, json_file, pkl_file,
                   search_engine, query, limit, scored_docs>>
    /\ UNCHANGED <<last_indexed, rebuild, builds, jieba>>

NextLookup ==
    ScanCorpusFile \/ BuildEngine \/ SimilarDocuments \/ TermStatistics \/ AnalyzeQuery

SpecLookup == InitBuild /\ [][NextLookup]_vars

\* the similarity lookup of a known document that has nothing to compare with
NoMatches(engine, doc_id) ==
    Similarities(engine, doc_id, IdsInOrder(DOMAIN engine.document_index)) = <<>>

\* C19: a lookup for something the index does not hold returns a value that
\* the caller can tell apart from a successful lookup with no matches: the
\* similarity answer for an absent doc id is not the answer a known document
\* without matches gets, and the statistics of an absent term carry the
\* not-found message, which those of an indexed term never carry.
C19_NotFoundIsExplicit ==
    pc = "looked" =>
        /\ (request.op = "similar"
            /\ request.arg \notin DOMAIN search_engine.document_index)
           => \A d \in DOMAIN search_engine.document_index :
                NoMatches(search_engine, d)
                    => results # get_similar_documents(search_engine, d, request.limit)
        /\ (request.op = "term" /\ preprocess_text(request.arg) # <<>>)
           => ("message" \in DOMAIN results
                 <=> preprocess_text(request.arg)[1]
                        \notin DOMAIN search_engine.inverted_index)

\* C20: get_similar_documents of a known doc id returns at most limit
\* entries (none when limit is below one), never the document itself, each other document at most once,
\* each with the Jaccard ratio of the two distinct term sets (to the four
\* decimals the score is kept with), in non-increasing order of score.
C20_SimilarityContract ==
    (pc = "looked" /\ request.op = "similar"
     /\ request.arg \in DOMAIN search_engine.document_index)
    => /\ Len(results) <= Max(request.limit, 0)
       /\ \A i \in DOMAIN results :
            /\ results[i].doc_id # request.arg
            /\ results[i].doc_id \in DOMAIN search_engine.document_index
            /\ LET a == DOMAIN search_engine.document_index[request.arg].term_frequencies
                   b == DOMAIN search_engine.document_index[results[i].doc_id].term_frequencies
                   inter == Cardinality(a \cap b)
                   union == Cardinality(a \cup b)
                   diff == 2 * results[i].similarity_score * union - 2 * inter * Scale
               IN diff <= union /\ 0 - diff <= union
       /\ \A i, j \in DOMAIN results :
            /\ (i # j) => results[i].doc_id # results[j].doc_id
            /\ (i < j) => results[i].similarity_score >= results[j].similarity_score

\* the same contract for the limits that are not negative
SimilarityContractNonNegative ==
    (pc = "looked" /\ request.op = "similar" /\ request.limit < 0)
        \/ C20_SimilarityContract

\* the distinct tokens of a sequence, in the order of their first occurrence
RECURSIVE FirstOccurrences(_)
FirstOccurrences(tokens) ==
    IF tokens = <<>> THEN <<>>
    ELSE LET front == FirstOccurrences(SubSeq(tokens, 1, Len(tokens) - 1))
             last == tokens[Len(tokens)]
         IN IF last \in Range(front) THEN front ELSE Append(front, last)

\* the title bonus as a function of the set of distinct query tokens, the
\* title token set and the title string
TitleBonusOfSets(query_terms, doc_title) ==
    LET Q == Range(query_terms)
        T == Range(preprocess_text(doc_title))
        ni == Cardinality(Q \cap T)
        nq == Cardinality(Q)
        stacked == KeywordBonus(FirstOccurrences(query_terms), T)
    IN IF Q \subseteq T THEN TITLE_EXACT_MATCH_BONUS * Scale + stacked
       ELSE IF Q \cap T # {}
            THEN (IF 10 * ni >= 8 * nq THEN TITLE_PARTIAL_80_BONUS * Scale
                  ELSE IF 10 * ni >= 6 * nq THEN TITLE_PARTIAL_60_BONUS * Scale
                  ELSE IF 10 * ni >= 4 * nq THEN TITLE_PARTIAL_40_BONUS * Scale
                  ELSE TITLE_PARTIAL_LOW_BONUS * Scale) + stacked
       ELSE IF IsSubstring(JoinWithSpace(FirstOccurrences(query_terms)),
                           Flatten(doc_title))
            THEN TITLE_SUBSTRING_MATCH_BONUS * Scale + stacked
       ELSE stacked

\* C21: the title bonus of every scored document is the function of the
\* distinct query tokens, the title token set and the title string that the
\* tiers describe, with the keyword bonus added once per distinct boosted
\* token, so that a token repeated in the query does not change it.
C21_TitleBonusOfDistinctTokens ==
    pc = "searched" =>
        \A i \in DOMAIN scored_docs :
            scored_docs[i].title_bonus
                = TitleBonusOfSets(preprocess_text(query), scored_docs[i].title)

\* the positions (0-based) of the sources that a built index holds a record of
IndexedPositions == {document_index[d].path : d \in DOMAIN document_index}

\* C22: a source is in the built document index exactly when its text is
\* not empty, it has at least 5 CJK characters and its body has tokens; the
\* indexed documents follow the input order, one record per source, and a
\* source whose title has tokens and whose body has none is not indexed.
C22_IndexedIffPassesFilters ==
    pc \in {"processed", "no_valid_documents", "saved", "loaded"} =>
        /\ \A i \in DOMAIN documents :
              (i - 1 \in IndexedPositions)
                 <=> /\ documents[i].text # <<>>
                     /\ documents[i].chinese_chars >= 5
                     /\ preprocess_text(documents[i].text) # <<>>
        /\ \A d, e \in DOMAIN document_index :
              (d < e) => document_index[d].path < document_index[e].path

\* a build over a source with title tokens and no body tokens, followed by
\* a source that passes
C22_Witness ==
    /\ pc = "processed"
    /\ Len(documents) = 2
    /\ documents[1].text = <<"de">>
    /\ preprocess_text(documents[1].title) # <<>>
    /\ IndexedPositions = {1}

\* =========================================================================
\* Title extraction.  A string is the sequence of its pieces; a text is the
\* sequence of its lines.  The pieces stand for: two four-character Chinese
\* titles, the full stop of a sentence, the marker of a numbered list, the
\* markdown heading mark with its blank, the two labels with their colon,
\* and the parts of a file name.
\* =========================================================================
TITLE_MIN_LEN == 3
TITLE_MAX_LEN == 50
TITLE_SCAN_LINES == 10

PieceLen(p) ==
    CASE p = "outangzuofa" -> 4
      [] p = "lianoupaigu" -> 4
      [] p = "stop" -> 1
      [] p = "1." -> 2
      [] p = "# " -> 2
      [] p = "biaoti:" -> 3
      [] p = "timu:" -> 3
      [] p = "DATE" -> 8
      [] p = "_" -> 1
      [] p = " " -> 1
      [] p = "abc" -> 3
      [] p = "ab" -> 2
      [] p = ".txt" -> 4

RECURSIVE StrLen(_)
StrLen(str) == IF str = <<>> THEN 0 ELSE PieceLen(Head(str)) + StrLen(Tail(str))

\* re.search(r'[\u4e00-\u9fff]', s)
HasCjk(str) == Range(str) \cap {"outangzuofa", "lianoupaigu", "biaoti:", "timu:"} # {}

\* re.findall(r'^#+\s*(.+)$', text_content, re.MULTILINE)
RECURSIVE markdown_headers(_)
markdown_headers(lines) ==
    IF lines = <<>> THEN <<>>
    ELSE (IF Len(Head(lines)) >= 2 /\ Head(lines)[1] = "# "
          THEN <<Tail(Head(lines))>> ELSE <<>>)
         \o markdown_headers(Tail(lines))

HeaderQualifies(header) ==
    /\ TITLE_MIN_LEN <= StrLen(header)
    /\ StrLen(header) <= TITLE_MAX_LEN
    /\ HasCjk(header)

\* title_patterns, in the order of the list (the patterns whose label occurs
\* in the texts)
title_patterns == <<"biaoti:", "timu:">>

\* what follows the first occurrence of the label in a line, if anything does
AfterLabel(line, label) ==
    LET at == {i \in DOMAIN line : line[i] = label}
        first == CHOOSE i \in at : \A j \in at : i <= j
    IN IF at = {} THEN <<>> ELSE SubSeq(line, first + 1, Len(line))

\* re.findall(pattern, text_content, re.MULTILINE)
RECURSIVE PatternMatches(_, _)
PatternMatches(lines, label) ==
    IF lines = <<>> THEN <<>>
    ELSE (IF AfterLabel(Head(lines), label) # <<>>
          THEN <<AfterLabel(Head(lines), label)>> ELSE <<>>)
         \o PatternMatches(Tail(lines), label)

MatchQualifies(match) ==
    /\ TITLE_MIN_LEN <= StrLen(match)
    /\ StrLen(match) <= TITLE_MAX_LEN
    /\ HasCjk(match)
    /\ "stop" \notin Range(match)     \* no full stop, exclamation or question mark

\* `for pattern in title_patterns: for match in matches:` the qualifying
\* matches of the first pattern that has one, of which the first is returned
RECURSIVE FirstPatternTitle(_, _)
FirstPatternTitle(lines, patterns) ==
    IF patterns = <<>> THEN <<>>
    ELSE IF SelectSeq(PatternMatches(lines, Head(patterns)), MatchQualifies) # <<>>
         THEN SelectSeq(PatternMatches(lines, Head(patterns)), MatchQualifies)
    ELSE FirstPatternTitle(lines, Tail(patterns))

LineQualifies(line) ==
    /\ StrLen(line) >= TITLE_MIN_LEN
    /\ StrLen(line) <= TITLE_MAX_LEN
    /\ HasCjk(line)
    /\ "stop" \notin Range(line)      \* no full stop, exclamation or question mark
    /\ ~(line # <<>> /\ line[1] = "1.")   \* no digits and enumeration mark in front

\* str.strip() on the pieces of a file name
RECURSIVE StripBlanks(_)
StripBlanks(str) ==
    IF str = <<>> THEN <<>>
    ELSE IF Head(str) = " " THEN StripBlanks(Tail(str))
    ELSE IF str[Len(str)] = " " THEN StripBlanks(SubSeq(str, 1, Len(str) - 1))
    ELSE str

\* rsplit('.', 1)[0], re.sub(r'\d{8,}', ''), re.sub(r'[_-]', ' '), strip()
RECURSIVE CleanPieces(_)
CleanPieces(str) ==
    IF str = <<>> THEN <<>>
    ELSE (IF Head(str) = "DATE" THEN <<>>
          ELSE IF Head(str) = "_" THEN <<" ">>
          ELSE <<Head(str)>>)
         \o CleanPieces(Tail(str))

clean_filename(filename) ==
    StripBlanks(CleanPieces(
        IF filename[Len(filename)] = ".txt"
        THEN SubSeq(filename, 1, Len(filename) - 1) ELSE filename))

\* extract_title_from_content(text_content, filename)
extract_title_from_content(lines, filename) ==
    IF \A i \in DOMAIN lines : lines[i] = <<>> THEN filename
    ELSE IF SelectSeq(markdown_headers(lines), HeaderQualifies) # <<>>
         THEN Head(SelectSeq(markdown_headers(lines), HeaderQualifies))
    ELSE IF FirstPatternTitle(lines, title_patterns) # <<>>
         THEN Head(FirstPatternTitle(lines, title_patterns))
    ELSE IF SelectSeq(SubSeq(lines, 1, Min(TITLE_SCAN_LINES, Len(lines))),
                      LineQualifies) # <<>>
         THEN Head(SelectSeq(SubSeq(lines, 1, Min(TITLE_SCAN_LINES, Len(lines))),
                             LineQualifies))
    ELSE IF clean_filename(filename) # <<>>
            /\ StrLen(clean_filename(filename)) >= TITLE_MIN_LEN
         THEN clean_filename(filename)
    ELSE filename

\* the lines a text is written with, the texts and the file names
Texts ==
    {Repeat(<<>>, k) \o body :
        k \in 0..MaxBlankLines,
        body \in SeqsUpTo({<<"# ", "outangzuofa">>, <<"biaoti:", "outangzuofa">>,
                           <<"timu:", "lianoupaigu">>, <<"outangzuofa">>,
                           <<"lianoupaigu", "stop">>, <<"1.", "lianoupaigu">>},
                          MaxLines)}

FileNames == {<<"DATE", "_", "abc", ".txt">>, <<"DATE", "_", "ab", ".txt">>}

\* a call of one of the engine's or the processor's functions on its own:
\* request holds the arguments, results the value returned
InitCall(requests) ==
    /\ jieba = FreshJieba
    /\ documents = <<>>
    /\ pc = "call"
    /\ document_index = EmptyMap
    /\ inverted_index = EmptyMap
    /\ json_file = None
    /\ pkl_file = None
    /\ search_engine = None
    /\ query = <<>>
    /\ limit = 0
    /\ scored_docs = <<>>
    /\ results = <<>>
    /\ last_indexed = None
    /\ rebuild = [t \in RebuildThreads |-> IdleRebuild]
    /\ request \in requests
    /\ builds = 0

ExtractTitle ==
    /\ pc = "call"
    /\ request.op = "extract_title"
    /\ results' = extract_title_from_content(request.text_content, request.filename)
    /\ pc' = "returned"
    /\ UNCHANGED <<documents, document_index, inverted_index, json_file, pkl_file,
                   search_engine, query, limit, scored_docs>>
    /\ UNCHANGED <<serviceVars, jieba>>

SpecTitle ==
    /\ InitCall({[op |-> "extract_title", text_content |-> t, filename |-> f] :
                    t \in Texts, f \in FileNames})
    /\ [][ExtractTitle]_vars

\* the candidate a line offers to each tier: the header of a heading line,
\* what follows a label (whichever label it is), the line itself
HeaderOf(line) == IF Len(line) >= 2 /\ line[1] = "# " THEN Tail(line) ELSE <<>>

LabelledOf(line) ==
    LET at == {i \in DOMAIN line : line[i] \in Range(title_patterns)}
        first == CHOOSE i \in at : \A j \in at : i <= j
    IN IF at = {} THEN <<>> ELSE SubSeq(line, first + 1, Len(line))

\* the lines of a text that are not blank, in order
RECURSIVE NonBlank(_)
NonBlank(lines) ==
    IF lines = <<>> THEN <<>>
    ELSE (IF Head(lines) = <<>> THEN <<>> ELSE <<Head(lines)>>) \o NonBlank(Tail(lines))

\* the qualifying candidates that the lines of a text offer to each tier,
\* in the order of the lines
QualifyingHeaders(lines) ==
    SelectSeq([i \in DOMAIN lines |-> HeaderOf(lines[i])],
              LAMBDA c : c # <<>> /\ HeaderQualifies(c))

QualifyingLabelled(lines) ==
    SelectSeq([i \in DOMAIN lines |-> LabelledOf(lines[i])],
              LAMBDA c : c # <<>> /\ MatchQualifies(c))

QualifyingLines(lines) ==
    SelectSeq(SubSeq(NonBlank(lines), 1, Min(10, Len(NonBlank(lines)))), LineQualifies)

\* the title by tiers: the earliest qualifying candidate of the first tier
\* that has one
TitleByTiers(lines, filename) ==
    IF QualifyingHeaders(lines) # <<>> THEN Head(QualifyingHeaders(lines))
    ELSE IF QualifyingLabelled(lines) # <<>> THEN Head(QualifyingLabelled(lines))
    ELSE IF QualifyingLines(lines) # <<>> THEN Head(QualifyingLines(lines))
    ELSE IF StrLen(clean_filename(filename)) >= 3 THEN clean_filename(filename)
    ELSE filename

\* C23: for a text with a line that is not blank, title extraction returns
\* the earliest qualifying candidate of the highest tier that has one:
\* heading, then labelled line whichever its label, then one of the first 10
\* lines that are not blank, then the cleaned file name, then the file name.
C23_EarliestOfBestTier ==
    (pc = "returned" /\ request.op = "extract_title"
     /\ NonBlank(request.text_content) # <<>>)
    => results = TitleByTiers(request.text_content, request.filename)

\* the same for the texts that start with a line that is not blank and in
\* which the first label of the pattern list is not used
TitleTiersWithoutBlanksAndLabelOrder ==
    (pc = "returned" /\ request.op = "extract_title"
     /\ request.text_content # <<>> /\ request.text_content[1] # <<>>
     /\ \A i \in DOMAIN request.text_content :
           "biaoti:" \notin Range(request.text_content[i]))
    => results = TitleByTiers(request.text_content, request.filename)

\* the entry that query analysis owes a token
AnalysisEntry(engine, term) ==
    LET postings == IF term \in DOMAIN engine.inverted_index
                    THEN engine.inverted_index[term] ELSE <<>>
    IN [term |-> term,
        frequency |-> SumPostings(postings),
        document_coverage |-> Len(postings),
        rarity_score |-> IF Len(postings) < 2 THEN "rare" ELSE "common"]

\* C24: query analysis returns one term_analysis entry for every distinct
\* token of the tokenized query, in the order of first occurrence, each with
\* the length of the token's posting list as coverage (0 if absent), the sum
\* of the posting counts as frequency, and the label rare exactly when the
\* coverage is below 2.
C24_OneEntryPerDistinctToken ==
    (pc = "looked" /\ request.op = "analyze")
    => LET distinct == FirstOccurrences(preprocess_text(request.arg))
       IN /\ Len(results.term_analysis) = Len(distinct)
          /\ \A i \in DOMAIN distinct :
                results.term_analysis[i] = AnalysisEntry(search_engine, distinct[i])

\* the same for the queries whose tokens are all different
AnalysisOfQueriesWithoutRepeats ==
    (pc = "looked" /\ request.op = "analyze"
     /\ Len(preprocess_text(request.arg))
            = Cardinality(Range(preprocess_text(request.arg))))
    => C24_OneEntryPerDistinctToken

\* =========================================================================
\* Snippets.  The content of a file is the sequence of the sentences that
\* re.split cuts it into; a sentence has the words the segmenter finds in it
\* and the number of characters it has once stripped.  A returned string is
\* given by the sentences it is taken from, the number of characters kept
\* and whether "..." was appended.
\* =========================================================================
SNIPPET_MIN_SENTENCE == 10

RECURSIVE ContentLen(_)
ContentLen(content) ==
    IF content = <<>> THEN 0
    ELSE Head(content).length + 1 + ContentLen(Tail(content))

\* the loop over sentences: best = [sentence, score], sentence None for ""
RECURSIVE ScanSentences(_, _, _)
ScanSentences(sentences, query_terms, best) ==
    IF sentences = <<>> THEN best
    ELSE LET sentence == Head(sentences)
             sentence_terms == preprocess_text(sentence.words)
             score == Cardinality({i \in DOMAIN query_terms :
                                      query_terms[i] \in Range(sentence_terms)})
         IN IF sentence.length < SNIPPET_MIN_SENTENCE
            THEN ScanSentences(Tail(sentences), query_terms, best)
            ELSE IF score > best.score
            THEN ScanSentences(Tail(sentences), query_terms,
                               [sentence |-> sentence, score |-> score])
            ELSE ScanSentences(Tail(sentences), query_terms, best)

\* get_chinese_snippet(doc_path, query, snippet_length), content being what
\* _read_file_with_encoding returns for doc_path
get_chinese_snippet(content, query_text, snippet_length) ==
    LET query_terms == preprocess_text(query_text)
        all == [i \in DOMAIN content |-> content[i].words]
        best == ScanSentences(content, query_terms, [sentence |-> None, score |-> 0])
    IN IF content = <<>> THEN [error |-> "cannot read file content"]
       ELSE IF query_terms = <<>>
       THEN [text |-> all, chars |-> Min(ContentLen(content), snippet_length),
             marker |-> ContentLen(content) > snippet_length]
       ELSE IF best.sentence = None
       THEN [text |-> all, chars |-> Min(ContentLen(content), snippet_length),
             marker |-> FALSE]
       ELSE [text |-> <<best.sentence.words>>,
             chars |-> Min(best.sentence.length, snippet_length),
             marker |-> best.sentence.length > snippet_length]

\* the files and queries a snippet is asked for
Contents ==
    SeqsUpTo({[words |-> w, length |-> n] :
                 w \in {<<"tang">>, <<"lianou", "outang">>, <<"de">>},
                 n \in {SNIPPET_MIN_SENTENCE - 1, SNIPPET_MIN_SENTENCE + 2}},
             MaxSentences)

SnippetQueries ==
    {<<>>, <<"de">>, <<"tang">>, <<"outang">>, <<"tang", "lianou", "outang">>,
     <<"tang", "tang", "lianou", "outang">>}

Snippet ==
    /\ pc = "call"
    /\ request.op = "snippet"
    /\ results' = get_chinese_snippet(request.content, request.query,
                                      request.snippet_length)
    /\ pc' = "returned"
    /\ UNCHANGED <<documents, document_index, inverted_index, json_file, pkl_file,
                   search_engine, query, limit, scored_docs>>
    /\ UNCHANGED <<serviceVars, jieba>>

SpecSnippet ==
    /\ InitCall({[op |-> "snippet", content |-> c, query |-> q, snippet_length |-> n] :
                    c \in Contents, q \in SnippetQueries, n \in {10, 300}})
    /\ [][Snippet]_vars

\* the score the claim gives a sentence: the distinct query tokens it holds
DistinctScore(query_terms, sentence) ==
    Cardinality(Range(query_terms) \cap Range(preprocess_text(sentence.words)))

Candidates(content) ==
    {i \in DOMAIN content : content[i].length >= 10}

\* the earliest candidate sentence among those with the maximal score
EarliestBest(content, query_terms) ==
    CHOOSE i \in Candidates(content) :
        /\ \A j \in Candidates(content) :
              DistinctScore(query_terms, content[j])
                  <= DistinctScore(query_terms, content[i])
        /\ \A j \in Candidates(content) :
              (j < i) => DistinctScore(query_terms, content[j])
                             < DistinctScore(query_terms, content[i])

\* C25: the snippet of a readable file is the earliest sentence among the
\* candidates (stripped length >= 10) that hold the most distinct query
\* tokens, when that number is above 0, and else the leading maxLength
\* characters of the document; it never has more than maxLength characters
\* before the truncation marker.
C25_SnippetIsEarliestBestSentence ==
    (pc = "returned" /\ request.op = "snippet" /\ request.content # <<>>)
    => LET query_terms == preprocess_text(request.query)
           content == request.content
           scoring == {i \in Candidates(content) :
                          DistinctScore(query_terms, content[i]) > 0}
       IN /\ results.chars <= request.snippet_length
          /\ IF scoring # {}
             THEN /\ results.text = <<content[EarliestBest(content, query_terms)].words>>
                  /\ results.chars
                        = Min(content[EarliestBest(content, query_terms)].length,
                              request.snippet_length)
             ELSE /\ results.text = [i \in DOMAIN content |-> content[i].words]
                  /\ results.chars = Min(ContentLen(content), request.snippet_length)

\* the same for the queries whose tokens are all different
SnippetOfQueriesWithoutRepeats ==
    (pc = "returned" /\ request.op = "snippet"
     /\ Len(preprocess_text(request.query))
            # Cardinality(Range(preprocess_text(request.query))))
    \/ C25_SnippetIsEarliestBestSentence

\* the contribution of a term to the base score of a document of the engine,
\* were the term's frequency in the document tf, all else being as it is
ContributionAt(doc_id, term, tf) ==
    TermScore(search_engine,
              [search_engine.document_index[doc_id] EXCEPT !.term_frequencies[term] = tf],
              term, Counter(preprocess_text(query))[term])

\* the (document, term) pairs that the last search scored
ScoredPairs ==
    UNION {{<<scored_docs[i].doc_id, t>> :
               t \in Range(preprocess_text(query))
                     \cap DOMAIN search_engine.document_index[
                                     scored_docs[i].doc_id].term_frequencies} :
           i \in DOMAIN scored_docs}

\* C26: with the corpus and the document length fixed, the BM25 contribution
\* of a term is never negative and does not decrease when tf grows, for
\* every tf from 1 on.
C26_ContributionMonotoneInTf ==
    pc = "searched" =>
        \A p \in ScoredPairs : \A tf \in 1..MaxTf :
            /\ ContributionAt(p[1], p[2], tf) >= 0
            /\ ContributionAt(p[1], p[2], tf) <= ContributionAt(p[1], p[2], tf + 1)

\* a scored term of positive idf, whose contribution grows with every step
\* of tf up to MaxTf
C26_Witness ==
    /\ pc = "searched"
    /\ \E p \in ScoredPairs :
          /\ _calculate_idf(search_engine, p[2]) > 0
          /\ \A tf \in 1..(MaxTf - 1) :
                ContributionAt(p[1], p[2], tf) < ContributionAt(p[1], p[2], tf + 1)

\* _get_title_match_level(title_bonus) of the search handler; the labels
\* stand for the six Chinese ones, "exact" for the exact-match label
_get_title_match_level(title_bonus) ==
    IF title_bonus >= 10 * Scale THEN "exact"
    ELSE IF title_bonus >= 8 * Scale THEN "high"
    ELSE IF title_bonus >= 6 * Scale THEN "good"
    ELSE IF title_bonus >= 4 * Scale THEN "partial"
    ELSE IF title_bonus >= 2 * Scale THEN "slight"
    ELSE "none"

\* C27: a search result is labelled as an exact title match only when every
\* distinct query token is in the title token set of its document.
C27_ExactLevelOnlyForExactMatch ==
    pc = "searched" =>
        \A i \in DOMAIN results :
            _get_title_match_level(results[i].title_bonus) = "exact"
                => Range(preprocess_text(query))
                      \subseteq Range(preprocess_text(results[i].title))

RebuildErrors == {"NO_DOCUMENTS", "NO_VALID_DOCUMENTS", "INDEX_BUILD_ERROR"}

\* the rebuild request of thread t has ended in an error
EndedInError(r) == "code" \in DOMAIN r.response /\ r.response.code \in RebuildErrors

\* C28: the step in which a rebuild request ends in an error changes
\* neither the engine reference nor the last-indexed timestamp, and the
\* generation that a failed request was building is neither the engine in
\* use nor the one the timestamp was taken for.
C28_FailedRebuildKeepsEngine ==
    /\ [][\A t \in RebuildThreads :
             (~EndedInError(rebuild[t]) /\ EndedInError(rebuild'[t]))
                => (search_engine' = search_engine /\ last_indexed' = last_indexed)]_vars
    /\ [](\A t \in RebuildThreads :
             (EndedInError(rebuild[t]) /\ rebuild[t].generation > 0)
                => /\ (search_engine # None
                          => search_engine.generation # rebuild[t].generation)
                   /\ (last_indexed # None => last_indexed.at # rebuild[t].generation))

\* a rebuild has failed after an earlier one had published its generation,
\* which is still the engine in use
C28_Witness ==
    \E t \in RebuildThreads :
        /\ EndedInError(rebuild[t])
        /\ rebuild[t].generation = 2
        /\ search_engine # None
        /\ search_engine.generation = 1
        /\ last_indexed = [at |-> 1]

NoRebuildInProgress == \A t \in RebuildThreads : rebuild[t].pc = "idle"

Succeeded(r) == "code" \in DOMAIN r.response /\ r.response.code = "SUCCESS"

\* the rebuild request that was started last
LastStarted(t) == \A u \in RebuildThreads : rebuild[u].generation <= rebuild[t].generation

\* the two files are the two stores of one build
StoresOfOneBuild ==
    \E corpus \in ServiceCorpora :
        /\ ~BuildRaises(corpus)
        /\ json_file = JsonDump(process_documents(corpus)[1])
        /\ pkl_file = PickleDump(process_documents(corpus)[2])

\* C29: once a rebuild has succeeded, in every state where no rebuild is in
\* progress the document store and the inverted-index store are those of
\* one and the same build, and when the rebuild started last has succeeded
\* they are the stores of the generation the active engine holds.
C29_StoresOfOneGeneration ==
    (NoRebuildInProgress /\ \E t \in RebuildThreads : Succeeded(rebuild[t]))
    => /\ StoresOfOneBuild
       /\ \A t \in RebuildThreads :
             (Succeeded(rebuild[t]) /\ LastStarted(t))
                => /\ json_file = JsonDump(search_engine.document_index)
                   /\ pkl_file = PickleDump(search_engine.inverted_index)

\* the queries that have a candidate document in the engine in use
QueriesWithCandidates ==
    {q \in Queries : CandidateDocs(search_engine, preprocess_text(q)) # {}}

\* C30: whenever a query has candidates in the engine in use, built by a
\* rebuild or loaded from the saved files, the engine's average document
\* length is above 0 and every document of its index has length >= 1.
C30_AverageLengthPositive ==
    (search_engine # None /\ QueriesWithCandidates # {})
    => /\ search_engine.avg_doc_length[1] > 0
       /\ search_engine.avg_doc_length[2] > 0
       /\ \A d \in DOMAIN search_engine.document_index :
             search_engine.document_index[d].length >= 1

\* a search with candidates was answered by an engine loaded from the saved
\* files after a restart that followed a rebuild
C30_Witness ==
    /\ search_engine # None
    /\ search_engine.generation = 0
    /\ builds > 0
    /\ request.op = "search" /\ request.pc = "done"
    /\ "results" \in DOMAIN request.response
    /\ request.response.results # <<>>
====
